---- MODULE Spec2Model ----
(***************************************************************************)
(* Model of dispatchwrapparr.py, dispatchduck.py and the persist_settings  *)
(* helper of the two Dispatcharr plugins.                                  *)
(*                                                                         *)
(* Eight specifications share one set of variables; each one leaves the    *)
(* variables of the others at their initial values.                        *)
(*   SpecBypass   : proxy_bypass_req and the way main() applies its result *)
(*                  (SpecBypassLive adds weak fairness of its steps)       *)
(*   SpecManifest : the representation loop of DASHStreamDRM.parse_manifest*)
(*   SpecMux      : FFMPEGMuxerDRM._get_keys and FFMPEGMuxerDRM.__init__   *)
(*   SpecPump     : main() of both programs from parse_args to exit        *)
(*   SpecKeys     : MPEGDASHDRM._process_keys and the option main sets     *)
(*   SpecVariants : parse_manifest from the language choice to its return, *)
(*                  the stream that main selects from the result, and      *)
(*                  DASHStreamDRM.open on that stream                      *)
(*   SpecWorker   : DASHStreamWorkerDRM.iter_segments                      *)
(*   SpecPersist  : concurrent calls of persist_settings                   *)
(***************************************************************************)
EXTENDS Integers, Sequences, FiniteSets, TLC

VARIABLES
    \* ---- proxy bypass (dispatchwrapparr.py main 1029-1055, proxy_bypass_req)
    bp_pc,          \* position: "call", "loop", "returned", "applied"
    args_i,         \* the input URL as given (args.i without fragment)
    url,            \* proxy_bypass_req's local variable url
    input_url,      \* main's input_url (the stream URL of the run)
    args_proxy,     \* args.proxy, None once main removed it
    session_proxy,  \* the http-proxy option of the Streamlink session
    bypasslist,     \* the patterns of -proxybypass
    bypass_result,  \* return value of proxy_bypass_req, "unset" before
    nrequests,      \* requests.get calls issued by proxy_bypass_req, up to MaxRequests
    contacted,      \* URLs requested directly (without the proxy)
    bp_event,       \* which branch ended proxy_bypass_req
    last_location,  \* Location header of the last redirect response
    \* ---- DASHStreamDRM.parse_manifest
    pm_pc,          \* "start", "loop", "done", "raised"
    decryption_key, \* session.options["decryption-key"], a list of keys
    use_subtitles,  \* session.options["use-subtitles"]
    args_subtitles, \* args.subtitles of main: "True", "False"; "None" when the
                    \* plugin is not driven by main
    aset_count,     \* adaptation sets visited so far
    rep_count,      \* representations visited in the current adaptation set
    video,          \* bucket of video representations
    audio,          \* bucket of audio representations
    subtitles,      \* bucket of subtitle representations
    pm_error,       \* the error raised by parse_manifest, None if none
    protected_seen, \* a content-protected aset or rep was visited
    \* ---- FFMPEGMuxerDRM.__init__
    mux_pc,         \* "new", "loop", "done", "IndexError"
    base_cmd,       \* the command built by FFMPEGMuxer.__init__
    old_cmd,        \* old_cmd
    new_cmd,        \* self._cmd
    keys,           \* the list returned by _get_keys
    key,            \* the key cursor
    muxers,         \* FFMPEGMuxerDRM objects constructed on this session
    \* ---- the pumps (main of dispatchwrapparr.py and of dispatchduck.py)
    prog,           \* "dispatchwrapparr" or "dispatchduck"
    pc,             \* position in main
    clearkey,       \* main's clearkey: None, or the source of the key found
    consulted,      \* check_clearkeys_for_url was called
    novariantcheck, \* merged option: "None", "True" or "False"
    noaudio,        \* merged option
    novideo,        \* merged option
    process,        \* subprocess started by the run (tsp, or the synthetic
                    \* generator): "none", "unbound", "running", "waited"
    fd,             \* the opened stream: "unopened", "open", "closed"
    muxed,          \* stream was replaced by a MuxedStream
    nread,          \* reads issued on the source
    data,           \* length of the chunk returned by the last read
    stdout,         \* chunks written to standard output, in order
    nwrite,         \* write calls issued on standard output
    pipe_broken,    \* the downstream consumer has disconnected
    exit,           \* "running", "exit0", "exit1", "exception", "sigpipe"
    setup_failure,  \* the setup step that failed, None if none
    interrupted,    \* position at which a KeyboardInterrupt arrived, None if none
    eof_at,         \* index of the read that returned zero bytes, 0 if none
    broken_at,      \* index of the first write that hit the broken pipe, 0 if none
    cli,            \* args: the flags and options of the command line
    frag,           \* the fragment of the input URL: a value per key, None if absent
    events,         \* what the run did to the outside, in order
    variant,        \* what check_stream_variant returned, None if it did not run
    stream,         \* the selected stream as check_stream_variant saw it
    video_stream,   \* first substream of the MuxedStream, None without one
    audio_stream,   \* second substream of the MuxedStream, None without one
    \* ---- MPEGDASHDRM._process_keys
    kp_pc,          \* "loop", "returned", "raised"
    clearkeys,      \* the entries of the clearkey string, in input order
    via_main,       \* the plugin option was set by main (line 1093)
    key_option,     \* plugin option "decryption-key": a list of strings
    kp_idx,         \* entries of key_option visited so far
    return_keys,    \* return_keys
    kp_error,       \* the exception that left _process_keys, None if none
    \* ---- DASHStreamDRM.parse_manifest from line 457: the variants
    locale,         \* session.localization: [explicit, language]
    lang,           \* the audio language that was chosen, None if none
    ret,            \* ret: the (name, stream) pairs, in the order of the product
    ret_new,        \* ret_new: the returned dict, in insertion order
    with_video_only,\* parameter with_video_only of parse_manifest
    with_audio_only,\* parameter with_audio_only of parse_manifest
    period_audio,   \* the audio bucket as line 455 leaves it, before the filter
    selected,       \* main's stream after the selection of line 1120: the entry of
                    \* ret_new that was picked, in a list; empty before and if none,
    opened,         \* DASHStreamDRM.open of the selected stream: the representations a
                    \* reader was created for, in order, and what open returned
    \* ---- DASHStreamWorkerDRM.iter_segments
    wk_pc,          \* "head" (the while test), "pass" (the for loop), "returned", "raised"
    mpd_type,       \* self.mpd.type
    ident,          \* the period of self.reader.ident, as an index from 1
    representation, \* the local representation is not None
    new_rep,        \* the period of the local new_rep, 0 for None
    yield_count,    \* yield_count
    closed,         \* self.closed
    init,           \* init
    segs,           \* segments that representation.segments() holds in this pass
    yielded,        \* the segments yielded so far, as <<iteration, number>>
    iter,           \* iterations of the while loop entered so far
    wk_log,         \* what each iteration found and did before its pass
    \* ---- Plugin.persist_settings
    ps_pc,          \* per call: "get", "save", "done"
    db_settings,    \* PluginConfig.settings of the plugin key in the database
    cfg,            \* per call: cfg.settings of the object the call read
    ps_args         \* per call: the arguments updates (its keys) and clear

bypVars == <<bp_pc, args_i, url, input_url, args_proxy, session_proxy, bypasslist,
             bypass_result, nrequests, contacted, bp_event, last_location>>
manVars == <<pm_pc, aset_count, rep_count, video, audio, subtitles,
             pm_error, protected_seen>>
optVars == <<decryption_key, use_subtitles, args_subtitles>>
muxVars == <<mux_pc, base_cmd, old_cmd, new_cmd, keys, key, muxers>>
pumpVars == <<prog, pc, clearkey, consulted, novariantcheck, noaudio, novideo, process, fd, muxed,
              nread, data, stdout, nwrite, pipe_broken, exit, setup_failure, interrupted,
              eof_at, broken_at, cli, frag, events, variant, stream, video_stream,
              audio_stream>>
keyVars == <<kp_pc, clearkeys, via_main, key_option, kp_idx, return_keys, kp_error>>
pvVars == <<locale, lang, ret, ret_new, with_video_only, with_audio_only, period_audio,
           selected, opened>>
wkVars == <<wk_pc, mpd_type, ident, representation, new_rep, yield_count, closed, init,
           segs, yielded, iter, wk_log>>
psVars == <<ps_pc, db_settings, cfg, ps_args>>
vars == <<bypVars, manVars, optVars, muxVars, pumpVars, keyVars, pvVars, wkVars, psVars>>

None == "None"

\* what each part of the program leaves alone in the other parts
BypFrame == UNCHANGED <<manVars, optVars, muxVars, pumpVars, keyVars, pvVars, wkVars, psVars>>
ManFrame == UNCHANGED <<bypVars, optVars, muxVars, pumpVars, keyVars, pvVars, wkVars, psVars>>
MuxFrame == UNCHANGED <<bypVars, manVars, pumpVars, keyVars, pvVars, wkVars, psVars>>
PumpFrame == UNCHANGED <<bypVars, manVars, optVars, muxVars, keyVars, pvVars, wkVars, psVars>>
KeyFrame == UNCHANGED <<bypVars, manVars, muxVars, pumpVars, pvVars, wkVars, psVars>>
PvFrame == UNCHANGED <<bypVars, optVars, muxVars, pumpVars, keyVars, wkVars, psVars>>
WkFrame == UNCHANGED <<bypVars, manVars, optVars, muxVars, pumpVars, keyVars, pvVars, psVars>>
PsFrame == UNCHANGED <<bypVars, manVars, optVars, muxVars, pumpVars, keyVars, pvVars, wkVars>>

(***************************************************************************)
(* Bounds                                                                  *)
(***************************************************************************)
MaxRequests == 3    \* probe requests one proxy_bypass_req call may issue
MaxASets == 2       \* adaptation sets of the selected period
MaxReps == 2        \* representations per adaptation set
MaxItems == 4       \* argument groups in the base muxer command
MaxMuxers == 2      \* muxers constructed on one session
MaxReads == 3       \* reads the pump issues on its source
MaxEntries == 2     \* entries of a clearkey string
MaxVideo == 3       \* video representations in the video bucket
MaxAudio == 2       \* audio representations in the audio bucket
MaxIters == 3       \* iterations of the while loop of iter_segments
MaxSegs == 2        \* segments of one pass of iter_segments
MaxCalls == 2       \* concurrent calls of persist_settings


(***************************************************************************)
(* Proxy Bypass Resolver: proxy_bypass_req and its caller in main          *)
(***************************************************************************)
Proxy == "http://127.0.0.1:8888"

\* The URLs of the model; "/live" is a relative Location (no hostname).
URLS == {"http://cam.lan/live", "http://nvr.lan/live", "http://cdn.net/live", "/live"}

NoHost == <<>>

\* urlparse(url).hostname, a host name as its labels; NoHost when there is none
hostname(u) ==
    CASE u = "http://cam.lan/live" -> <<"cam", "lan">>
      [] u = "http://nvr.lan/live" -> <<"nvr", "lan">>
      [] u = "http://cdn.net/live" -> <<"cdn", "net">>
      [] OTHER -> NoHost

\* The glob patterns a -proxybypass list is made of
Patterns == {<<"*", "lan">>, <<"cam", "lan">>, <<"cdn", "net">>}

\* A wrong match: only the last label is compared
fnmatch_last_label(host, pat) == pat[Len(pat)] = "*" \/ pat[Len(pat)] = host[Len(host)]

\* fnmatch.fnmatch(hostname, pat), label by label
fnmatch(host, pat) ==
    /\ Len(host) = Len(pat)
    /\ \A i \in 1..Len(pat) : pat[i] = "*" \/ pat[i] = host[i]

\* A wrong test: a URL without hostname is taken to be on the bypass list
in_bypass_nohost(u, patterns) ==
    hostname(u) = NoHost \/ \E pat \in patterns : fnmatch(hostname(u), pat)

\* hostname and any(fnmatch.fnmatch(hostname, pat) for pat in bypass_patterns)
in_bypass(u, patterns) ==
    hostname(u) # NoHost /\ \E pat \in patterns : fnmatch(hostname(u), pat)

\* A wrong return: the candidate URL instead of the Location that left the list
redirect_return_url(location, u) == u

\* return location  # left bypass list
redirect_return(location, u) == location

\* return url, in the else branch and in the except branch: url is the local
\* variable, which the loop has replaced by every in-pattern Location so far
fallback_return(u) == u

\* break on a redirect without Location: control leaves the while loop and the
\* try block and falls off the end of the function, which returns None
break_return == None

\* main: if bypass_result is None: args.proxy = None
main_proxy(result, proxy) == IF result = None THEN None ELSE proxy

\* main: else: input_url = bypass_result
main_url(result, u) == IF result = None THEN u ELSE result

BypIdle ==
    /\ bp_pc = "idle" /\ args_i = None /\ url = None /\ input_url = None
    /\ args_proxy = None /\ session_proxy = None /\ bypasslist = {}
    /\ bypass_result = "unset" /\ nrequests = 0 /\ contacted = {}
    /\ bp_event = "none" /\ last_location = None

\* State at main line 1029. parse_args rejects -proxybypass without -proxy.
InitBypass ==
    /\ bp_pc = "call"
    /\ args_i \in URLS
    /\ input_url = args_i
    /\ url = None
    /\ bypasslist \in SUBSET Patterns
    /\ args_proxy \in {None, Proxy}
    /\ bypasslist # {} => args_proxy # None
    /\ session_proxy = None
    /\ bypass_result = "unset"
    /\ nrequests = 0
    /\ contacted = {}
    /\ bp_event = "none"
    /\ last_location = None

\* main: -proxybypass not supplied, the proxy option goes to the session as is
MainNoBypass ==
    /\ BypFrame
    /\ bp_pc = "call" /\ bypasslist = {}
    /\ bp_pc' = "applied"
    /\ session_proxy' = args_proxy
    /\ UNCHANGED <<args_i, url, input_url, args_proxy, bypasslist, bypass_result,
                   nrequests, contacted, bp_event, last_location>>

\* proxy_bypass_req up to the while loop
BypassCall ==
    /\ BypFrame
    /\ bp_pc = "call" /\ bypasslist # {}
    /\ url' = input_url
    /\ IF ~in_bypass(input_url, bypasslist)
       THEN /\ bypass_result' = input_url
            /\ bp_event' = "no_match"
            /\ bp_pc' = "returned"
       ELSE /\ bp_pc' = "loop"
            /\ UNCHANGED <<bypass_result, bp_event>>
    /\ UNCHANGED <<args_i, input_url, args_proxy, session_proxy, bypasslist,
                   nrequests, contacted, last_location>>

\* one requests.get of the loop, sent directly to url; the loop has no bound
\* of its own, and the count stops at MaxRequests
Request ==
    /\ bp_pc = "loop"
    /\ nrequests' = IF nrequests < MaxRequests THEN nrequests + 1 ELSE nrequests
    /\ contacted' = contacted \cup {url}

\* status == 200
Probe200 ==
    /\ BypFrame
    /\ Request
    /\ bypass_result' = None
    /\ bp_event' = "ok_200"
    /\ bp_pc' = "returned"
    /\ UNCHANGED <<args_i, url, input_url, args_proxy, session_proxy, bypasslist,
                   last_location>>

\* status in (301, 302)
ProbeRedirect(location) ==
    /\ BypFrame
    /\ Request
    /\ last_location' = location
    /\ IF location = None
       THEN /\ bypass_result' = break_return
            /\ bp_event' = "no_location"
            /\ bp_pc' = "returned"
            /\ url' = url
       ELSE IF in_bypass(location, bypasslist)
       THEN /\ url' = location
            /\ UNCHANGED <<bypass_result, bp_event, bp_pc>>
       ELSE /\ bypass_result' = redirect_return(location, url)
            /\ bp_event' = "left_bypass"
            /\ bp_pc' = "returned"
            /\ url' = url
    /\ UNCHANGED <<args_i, input_url, args_proxy, session_proxy, bypasslist>>

\* any other status
ProbeOtherStatus ==
    /\ BypFrame
    /\ Request
    /\ bypass_result' = fallback_return(url)
    /\ bp_event' = "bad_status"
    /\ bp_pc' = "returned"
    /\ UNCHANGED <<args_i, url, input_url, args_proxy, session_proxy, bypasslist,
                   last_location>>

\* the request raised: except Exception
ProbeException ==
    /\ BypFrame
    /\ Request
    /\ bypass_result' = fallback_return(url)
    /\ bp_event' = "exception"
    /\ bp_pc' = "returned"
    /\ UNCHANGED <<args_i, url, input_url, args_proxy, session_proxy, bypasslist,
                   last_location>>

\* main 1033-1038 and 1052-1053
MainApply ==
    /\ BypFrame
    /\ bp_pc = "returned"
    /\ args_proxy' = main_proxy(bypass_result, args_proxy)
    /\ input_url' = main_url(bypass_result, input_url)
    /\ session_proxy' = args_proxy'
    /\ bp_pc' = "applied"
    /\ UNCHANGED <<args_i, url, bypasslist, bypass_result, nrequests, contacted,
                   bp_event, last_location>>


(***************************************************************************)
(* Representation Selector: DASHStreamDRM.parse_manifest                   *)
(***************************************************************************)
KeyNames == <<"key0", "key1", "key2">>

MimeTypes == {"video", "audio", "application"}

\* the None placeholder of a bucket
NoneRep == [id |-> 0, mimeType |-> None]

\* A wrong check: protection declared on a Representation is not looked at
rep_drm_unchecked(rep_cp, dk) == FALSE

\* if rep.contentProtections: if not session.options.get("decryption-key"): raise
rep_drm_raises(rep_cp, dk) == rep_cp /\ dk = <<>>

\* if aset.contentProtections: if not session.options.get("decryption-key"): raise
aset_drm_raises(aset_cp, dk) == aset_cp /\ dk = <<>>

\* if not bucket: bucket.append(None)
placeholder(bucket) == IF bucket = <<>> THEN <<NoneRep>> ELSE bucket

\* the variables of the second half of parse_manifest before it is reached
PvIdle ==
    /\ locale = [explicit |-> FALSE, language |-> None]
    /\ lang = None /\ ret = <<>> /\ ret_new = <<>>
    /\ with_video_only = FALSE /\ with_audio_only = FALSE /\ period_audio = <<>>
    /\ selected = <<>> /\ opened = [readers |-> <<>>, result |-> "unopened"]

ManIdle ==
    /\ pm_pc = "idle" /\ aset_count = 0 /\ rep_count = 0
    /\ video = <<>> /\ audio = <<>> /\ subtitles = <<>>
    /\ pm_error = None /\ protected_seen = FALSE
    /\ PvIdle

\* State on entry of parse_manifest, with_video_only and with_audio_only False
InitManifest ==
    /\ pm_pc = "start"
    /\ aset_count = 0 /\ rep_count = 0
    /\ video = <<>> /\ audio = <<>> /\ subtitles = <<>>
    /\ pm_error = None
    /\ protected_seen = FALSE

\* fetch_manifest, parse_mpd and the period lookup (lines 398-427)
PM_Load(outcome) ==
    /\ ManFrame
    /\ pm_pc = "start"
    /\ CASE outcome = "ok" -> pm_pc' = "loop" /\ pm_error' = None
         [] outcome = "parse_mpd" -> pm_pc' = "raised" /\ pm_error' = "ManifestParse"
         [] outcome = "period" -> pm_pc' = "raised" /\ pm_error' = "PeriodNotFound"
    /\ UNCHANGED <<aset_count, rep_count, video, audio, subtitles, protected_seen>>

\* for aset in period_selection.adaptationSets: the check on the adaptation set
PM_ASet(aset_cp) ==
    /\ ManFrame
    /\ pm_pc = "loop" /\ aset_count < MaxASets
    /\ aset_count' = aset_count + 1
    /\ rep_count' = 0
    /\ protected_seen' = (protected_seen \/ aset_cp)
    /\ IF aset_drm_raises(aset_cp, decryption_key)
       THEN pm_pc' = "raised" /\ pm_error' = "DrmKeyRequired"
       ELSE UNCHANGED <<pm_pc, pm_error>>
    /\ UNCHANGED <<video, audio, subtitles>>

\* for rep in aset.representations: the check and the partition by mimeType.
\* A bucket entry keeps what is read of a Representation after the check: its
\* identity (the position among the entries kept) and its mimeType.
PM_Rep(mime, rep_cp) ==
    /\ ManFrame
    /\ pm_pc = "loop" /\ aset_count > 0 /\ rep_count < MaxReps
    /\ rep_count' = rep_count + 1
    /\ protected_seen' = (protected_seen \/ rep_cp)
    /\ LET rep == [id |-> Len(video) + Len(audio) + Len(subtitles) + 1,
                   mimeType |-> mime]
       IN  IF rep_drm_raises(rep_cp, decryption_key)
           THEN /\ pm_pc' = "raised" /\ pm_error' = "DrmKeyRequired"
                /\ UNCHANGED <<video, audio, subtitles>>
           ELSE /\ UNCHANGED <<pm_pc, pm_error>>
                /\ video' = IF mime = "video" THEN Append(video, rep) ELSE video
                /\ audio' = IF mime = "audio" THEN Append(audio, rep) ELSE audio
                /\ subtitles' = IF use_subtitles /\ mime = "application"
                                THEN Append(subtitles, rep) ELSE subtitles
    /\ UNCHANGED aset_count

\* the end of the loop and the placeholders (lines 450-455)
PM_Placeholders ==
    /\ ManFrame
    /\ pm_pc = "loop"
    /\ video' = placeholder(video)
    /\ audio' = placeholder(audio)
    /\ subtitles' = placeholder(subtitles)
    /\ pm_pc' = "done"
    /\ UNCHANGED <<aset_count, rep_count, pm_error, protected_seen>>


(***************************************************************************)
(* Mux Command Builder: FFMPEGMuxerDRM                                     *)
(***************************************************************************)
\* the key lists a session may be given: no key, one, two or three keys
KeyLists == {SubSeq(KeyNames, 1, n) : n \in 0..Len(KeyNames)}

InputNames == <<"pipe0", "pipe1", "pipe2", "pipe3", "pipe4", "pipe5", "pipe6", "pipe7">>

\* The base command of FFMPEGMuxer is "ffmpeg", then argument groups, then a
\* tail.  A group is an input pair, an audio codec pair or a lone flag.
ItemKinds == {"IN", "CA", "OPT"}

Tails == {<<"-f", "mpegts", "pipe:1">>, <<"out.ts">>, <<"-i">>, <<"-c:a">>, <<>>}

\* tokens for which str.startswith("-") is true
FlagTokens == {"-i", "-c:a", "-c:s", "-y", "-f", "-re", "-readrate_initial_burst",
               "-decryption_key", "-copyts", "-mpegts_copyts"}

RECURSIVE Expand(_, _)
Expand(items, n) ==
    IF items = <<>> THEN <<>>
    ELSE CASE Head(items) = "IN" -> <<"-i", InputNames[n + 1]>> \o Expand(Tail(items), n + 1)
           [] Head(items) = "CA" -> <<"-c:a", "copy">> \o Expand(Tail(items), n)
           [] OTHER -> <<"-y">> \o Expand(Tail(items), n)

ItemSeqs == UNION {[1..n -> ItemKinds] : n \in 0..MaxItems}

\* self._cmd after FFMPEGMuxer.__init__
BaseCmd(items, tail) == <<"ffmpeg">> \o Expand(items, 0) \o tail

\* A wrong cursor: wraps to slot 0
next_key_wrap0(k, n) == IF k + 1 = n THEN 0 ELSE k + 1

\* key += 1; if key == len(keys): key = 1
next_key(k, n) == IF k + 1 = n THEN 1 ELSE k + 1

\* A wrong test: a list of any length counts as a single key
single_key_any_length(dk) == TRUE

\* if len(keys) == 1
single_key(dk) == Len(dk) = 1

\* A missing broadcast: a single key is not repeated for the other inputs
get_keys_noextend(dk) == dk

\* _get_keys: the list of the session, extended in place when it has one key
get_keys(dk) == IF dk # <<>> /\ single_key(dk) THEN dk \o dk ELSE dk

\* A missing flag: the key argument is not followed by -copyts
key_args_nocopyts(k) == <<"-re", "-readrate_initial_burst", "6", "-decryption_key", k>>

\* the tokens spliced in before an input pair
key_args(k) == <<"-re", "-readrate_initial_burst", "6", "-decryption_key", k, "-copyts">>

\* self._cmd[-1].startswith("pipe:") or not self._cmd[-1].startswith("-")
is_sink(tok) == tok = "pipe:1" \/ tok \notin FlagTokens

\* lines 195-198
add_mpegts_copyts(cmd) ==
    IF cmd # <<>> /\ is_sink(cmd[Len(cmd)])
    THEN SubSeq(cmd, 1, Len(cmd) - 1) \o <<"-mpegts_copyts", "1">> \o <<cmd[Len(cmd)]>>
    ELSE cmd

\* main 1095-1096: if args.subtitles: plugin.options["use-subtitles"].  The
\* statement reads the option and assigns nothing, so the plugin option keeps
\* its default whatever the flag is.
main_use_subtitles(flag) == None

\* _get_streams 97-98 and FFMPEGMuxerDRM.__init__ 171: the values that
\* self.session.options.get("use-subtitles") can have, as a truth value.  A
\* clearkey run of main (flag "True" or "False") has what main left in the
\* plugin option; a plugin driven by Streamlink itself has either value.
session_use_subtitles(flag) ==
    IF flag = None THEN BOOLEAN ELSE {main_use_subtitles(flag) = "True"}

MuxIdle ==
    /\ mux_pc = "idle" /\ base_cmd = <<>> /\ old_cmd = <<>> /\ new_cmd = <<>>
    /\ keys = <<>> /\ key = 0 /\ muxers = 0

\* State when FFMPEGMuxer.__init__ has built the base command of the session's
\* muxers (line 166 has returned)
InitMux ==
    /\ mux_pc = "new"
    /\ base_cmd \in {BaseCmd(items, tail) : items \in ItemSeqs, tail \in Tails}
    /\ old_cmd = <<>> /\ new_cmd = <<>>
    /\ keys = <<>> /\ key = 0 /\ muxers = 0

\* FFMPEGMuxerDRM.__init__ up to the while loop (lines 169-174), for one more
\* muxer of the session
MuxNew ==
    /\ MuxFrame
    /\ mux_pc \in {"new", "done", "IndexError"}
    /\ muxers < MaxMuxers
    /\ muxers' = muxers + 1
    /\ keys' = get_keys(decryption_key)
    /\ decryption_key' = keys'
    /\ key' = 0
    /\ old_cmd' = base_cmd
    /\ new_cmd' = <<>>
    /\ mux_pc' = "loop"
    /\ UNCHANGED <<base_cmd, use_subtitles, args_subtitles>>

\* if keys and cmd == "-i"
MuxInput ==
    /\ MuxFrame
    /\ mux_pc = "loop" /\ old_cmd # <<>>
    /\ keys # <<>> /\ Head(old_cmd) = "-i"
    /\ IF Tail(old_cmd) = <<>>
       THEN /\ mux_pc' = "IndexError"                  \* old_cmd.pop(0) on []
            /\ old_cmd' = Tail(old_cmd)
            /\ UNCHANGED <<new_cmd, key>>
       ELSE IF key + 1 > Len(keys)
       THEN /\ mux_pc' = "IndexError"                  \* keys[key] out of range
            /\ old_cmd' = Tail(Tail(old_cmd))
            /\ new_cmd' = new_cmd \o <<"-re", "-readrate_initial_burst", "6">>
            /\ UNCHANGED key
       ELSE /\ new_cmd' = new_cmd \o key_args(keys[key + 1]) \o <<"-i", old_cmd[2]>>
            /\ key' = next_key(key, Len(keys))
            /\ old_cmd' = Tail(Tail(old_cmd))
            /\ UNCHANGED mux_pc
    /\ UNCHANGED <<base_cmd, keys, muxers, optVars>>

\* elif subtitles and cmd == "-c:a"
MuxAudioCodec ==
    /\ MuxFrame
    /\ mux_pc = "loop" /\ old_cmd # <<>>
    /\ ~(keys # <<>> /\ Head(old_cmd) = "-i")
    /\ use_subtitles /\ Head(old_cmd) = "-c:a"
    /\ IF Tail(old_cmd) = <<>>
       THEN /\ mux_pc' = "IndexError"
            /\ old_cmd' = Tail(old_cmd)
            /\ UNCHANGED new_cmd
       ELSE /\ new_cmd' = new_cmd \o <<"-c:a", old_cmd[2]>> \o <<"-c:s", "copy">>
            /\ old_cmd' = Tail(Tail(old_cmd))
            /\ UNCHANGED mux_pc
    /\ UNCHANGED <<base_cmd, keys, key, muxers, optVars>>

\* else: self._cmd.append(cmd)
MuxOther ==
    /\ MuxFrame
    /\ mux_pc = "loop" /\ old_cmd # <<>>
    /\ ~(keys # <<>> /\ Head(old_cmd) = "-i")
    /\ ~(use_subtitles /\ Head(old_cmd) = "-c:a")
    /\ new_cmd' = Append(new_cmd, Head(old_cmd))
    /\ old_cmd' = Tail(old_cmd)
    /\ UNCHANGED <<mux_pc, base_cmd, keys, key, muxers, optVars>>

\* after the loop: the output sink (lines 195-199)
MuxSink ==
    /\ MuxFrame
    /\ mux_pc = "loop" /\ old_cmd = <<>>
    /\ new_cmd' = add_mpegts_copyts(new_cmd)
    /\ mux_pc' = "done"
    /\ UNCHANGED <<base_cmd, old_cmd, keys, key, muxers, optVars>>


(***************************************************************************)
(* Stream Pump: main of dispatchwrapparr.py (from line 1084) and main of   *)
(* dispatchduck.py                                                         *)
(***************************************************************************)
Progs == {"dispatchwrapparr", "dispatchduck"}

\* None, True, False as the merged options hold them
Tri == {"None", "True", "False"}

\* fd.read(188 * 64)
ReadSize == 12032

\* outcomes of fetching the streams: through the dashdrm plugin with a clearkey
\* (every failure is a PluginError; the key list main hands over is never empty,
\* so the check of lines 429-441 passes), through detect_stream_type otherwise
\* (Streamlink's own DASH parser refuses a protected period: drm_check)
DrmOutcomes == {"ok", "empty", "key_validation", "manifest_parse", "period_lookup"}
PlainOutcomes == {"ok", "empty", "stream_detection", "drm_check"}

\* positions inside the try block of each main
TryPositions(p) ==
    IF p = "dispatchduck" THEN {"popen", "read", "write"} ELSE {"open", "read", "write"}

\* signal.signal(signal.SIGPIPE, signal.SIG_DFL) at dispatchwrapparr.py:1172
wrapparr_sigpipe == "SIG_DFL"

\* A missing call: Python's start-up disposition of SIGPIPE stays in place
duck_sigpipe_ignored == "SIG_IGN"

\* signal.signal(signal.SIGPIPE, signal.SIG_DFL) at dispatchduck.py:80
duck_sigpipe == "SIG_DFL"

sigpipe(p) == IF p = "dispatchduck" THEN duck_sigpipe ELSE wrapparr_sigpipe

\* A missing return after log.error: the run goes on after a failed setup
load_next_noreturn(outcome) == "variant"

\* try: streams = ... except: log.error(...); return / if not streams: return
load_next(outcome) == IF outcome = "ok" THEN "variant" ELSE "exit"

\* A wrong test: a read of zero bytes is handled like any other chunk
never_eof(len) == FALSE

\* if not data: break
is_eof(len) == len = 0

\* A wrong write: the chunk goes out twice
buffer_write_twice(out, chunk) == out \o <<chunk, chunk>>

\* sys.stdout.buffer.write(data); sys.stdout.buffer.flush(): standard output
\* after the chunk of the last read was written
buffer_write(out, chunk) == Append(out, chunk)

\* A missing call: the stream is never looked at
runs_variant_check_never(nvc, na, nv) == FALSE

\* if novideo is None and noaudio is None and novariantcheck is None
runs_variant_check(nvc, na, nv) == nvc = "None" /\ na = "None" /\ nv = "None"

\* A missing branch: with both options set the silent audio is still made
synth_choice_noaudio_first(na, nv) ==
    CASE na = "True" -> "silent_audio"
      [] na # "True" /\ nv = "True" -> "blank_video"
      [] OTHER -> "nothing"

\* the branch taken at lines 1141-1154
synth_choice(na, nv) ==
    CASE na = "True" /\ nv # "True" -> "silent_audio"
      [] na # "True" /\ nv = "True" -> "blank_video"
      [] na = "True" /\ nv = "True" -> "warning"
      [] OTHER -> "nothing"

\* dispatchduck: except KeyboardInterrupt: process.terminate(); process.wait().
\* While Popen has not returned, the name process is unbound and the handler
\* raises UnboundLocalError.
duck_interrupt(proc) ==
    IF proc = "unbound"
    THEN [process |-> "unbound", exit |-> "exception"]
    ELSE [process |-> "waited", exit |-> "exit0"]

\* what a write to a disconnected consumer does to the process
broken_pipe_exit(p) ==
    IF sigpipe(p) = "SIG_DFL" THEN "sigpipe"          \* killed by the signal
    ELSE IF p = "dispatchduck" THEN "exit1"           \* except Exception: sys.exit(1)
    ELSE "exit0"                                      \* except BrokenPipeError: break

\* str.lower(), on a sequence of characters
lower(str) ==
    [i \in DOMAIN str |->
        CASE str[i] = "T" -> "t" [] str[i] = "M" -> "m" [] str[i] = "P" -> "p"
          [] str[i] = "V" -> "v" [] OTHER -> str[i]]

\* str.startswith(tuple) and str.endswith(tuple)
startswith(str, prefixes) ==
    \E q \in prefixes : Len(q) <= Len(str) /\ SubSeq(str, 1, Len(q)) = q

endswith(str, suffixes) ==
    \E q \in suffixes : Len(q) <= Len(str) /\ SubSeq(str, Len(str) - Len(q) + 1, Len(str)) = q

\* A wrong check: the flags are not compared with each other
parse_args_error_proxy_only(a) == a.proxybypass /\ ~a.proxy

\* parse_args: the two parser.error calls
parse_args_error(a) ==
    \/ a.proxybypass /\ ~a.proxy
    \/ Cardinality({f \in {"novideo", "noaudio", "novariantcheck"} : a[f]}) > 1

\* novideo = (fragments["novideo"].lower() == "true") if "novideo" in fragments
\* else None; if novideo is None and args.novideo: novideo = args.novideo
merged_flag(fragments, a, name) ==
    IF name \in DOMAIN fragments
    THEN IF lower(fragments[name]) = <<"t", "r", "u", "e">> THEN "True" ELSE "False"
    ELSE IF a[name] THEN "True" ELSE None

\* A wrong order: the source of -clearkeys goes first
merged_clearkey_cli_first(fragments, a, found) ==
    IF a.clearkeys /\ found THEN "clearkeys"
    ELSE IF "clearkey" \in DOMAIN fragments THEN "fragment" ELSE None

\* clearkey = fragments.get("clearkey"); if clearkey is None and
\* args.clearkeys: clearkey = check_clearkeys_for_url(...), which returns the
\* key of the first matching pattern (found) or None
merged_clearkey(fragments, a, found) ==
    IF "clearkey" \in DOMAIN fragments THEN "fragment"
    ELSE IF a.clearkeys /\ found THEN "clearkeys" ELSE None

\* if clearkey is None and args.clearkeys
clearkeys_consulted(fragments, a) == "clearkey" \notin DOMAIN fragments /\ a.clearkeys

\* A wrong test: proxy_bypass_req is called without a bypass list too
bypass_called_always(a) == TRUE

\* if args.proxybypass:
bypass_called(a) == a.proxybypass

\* the stream before check_stream_variant looked at it
NoStream == [cls |-> None, multivariant |-> FALSE, selected |-> FALSE, codecs |-> <<>>,
             url |-> <<>>]

\* The streams check_stream_variant tells apart: an HLSStream of a multivariant
\* playlist with the playlist of its URL found (selected) and the codecs of
\* that playlist, an HLSStream without that, an HTTPStream, any other stream.
StreamKinds ==
    LET mp4a == <<"m", "p", "4", "a", ".", "4", "0">>
        avc1 == <<"a", "v", "c", "1">>
        ac3 == <<"a", "c", "-", "3">>
        m3u8 == <<"a", ".", "m", "3", "u", "8">>
    IN  {[cls |-> "HLSStream", multivariant |-> TRUE, selected |-> TRUE, codecs |-> c,
          url |-> m3u8] : c \in {<<>>, <<mp4a>>, <<avc1>>, <<avc1, mp4a>>, <<avc1, ac3>>}}
        \cup {[cls |-> "HLSStream", multivariant |-> m, selected |-> FALSE,
               codecs |-> <<>>, url |-> m3u8] : m \in BOOLEAN}
        \cup {[cls |-> "HTTPStream", multivariant |-> FALSE, selected |-> FALSE,
               codecs |-> <<>>, url |-> u] :
                  u \in {<<"a", ".", "M", "P", "3">>, <<"a", ".", "m", "p", "4">>,
                         <<"a", ".", "t", "s">>}}
        \cup {[cls |-> "DASHStream", multivariant |-> FALSE, selected |-> FALSE,
               codecs |-> <<>>, url |-> <<>>]}

\* what session.http.get does in check_stream_variant: it raises, or it answers
\* with a Content-Type header (the empty string when there is none)
ProbeOutcomes ==
    {[raised |-> TRUE, ctype |-> <<>>]} \cup
    {[raised |-> FALSE, ctype |-> c] :
        c \in {<<>>, <<"a", "u", "d", "i", "o", "/", "x">>,
               <<"V", "i", "d", "e", "o", "/", "x">>, <<"t", "e", "x", "t", "/", "x">>}}

\* A missing except clause: an exception of the request leaves the function
probe_return_uncaught(probe) ==
    IF probe.raised THEN [ret |-> 0, probed |-> TRUE, raised |-> TRUE]
    ELSE [ret |-> IF startswith(lower(probe.ctype), {<<"a", "u", "d", "i", "o", "/">>})
                  THEN 1 ELSE 0,
          probed |-> TRUE, raised |-> FALSE]

\* lines 909-922: the Content-Type of the response decides; except Exception:
\* return 0
probe_return(probe) ==
    IF probe.raised THEN [ret |-> 0, probed |-> TRUE, raised |-> FALSE]
    ELSE [ret |-> IF startswith(lower(probe.ctype), {<<"a", "u", "d", "i", "o", "/">>})
                  THEN 1 ELSE 0,
          probed |-> TRUE, raised |-> FALSE]

\* A missing fast path: no URL is classified by its extension
by_extension_never(str) == -1

\* lines 901-907: 1 for an audio extension, 0 for a container extension, -1
\* when the extension decides nothing
by_extension(str) ==
    IF endswith(lower(str), {<<".", "a", "a", "c">>, <<".", "m", "4", "a">>,
                             <<".", "m", "p", "3">>, <<".", "o", "g", "g">>}) THEN 1
    ELSE IF endswith(lower(str), {<<".", "m", "p", "4">>, <<".", "m", "k", "v">>,
                                  <<".", "w", "e", "b", "m">>, <<".", "m", "o", "v">>})
    THEN 0
    ELSE -1

\* check_stream_variant(stream, session): the value returned, whether the
\* request was issued, whether an exception left the function.  HLSStream is a
\* subclass of HTTPStream.
check_stream_variant(st, session, probe) ==
    LET has_video == \E i \in 1..Len(st.codecs) :
                        startswith(st.codecs[i], {<<"a", "v", "c">>, <<"h", "e", "v">>,
                                                  <<"v", "p">>})
        has_audio == \E i \in 1..Len(st.codecs) :
                        startswith(st.codecs[i], {<<"m", "p", "4", "a">>, <<"a", "a", "c">>})
        decided(v) == [ret |-> v, probed |-> FALSE, raised |-> FALSE]
    IN  IF st.cls = "HLSStream" /\ st.multivariant /\ st.selected
        THEN IF has_audio /\ ~has_video THEN decided(1)
             ELSE IF has_video /\ ~has_audio THEN decided(2)
             ELSE decided(0)
        ELSE IF st.cls \in {"HLSStream", "HTTPStream"}
        THEN IF by_extension(st.url) # -1 THEN decided(by_extension(st.url))
             ELSE IF session THEN probe_return(probe)
             ELSE decided(0)
        ELSE decided(0)

PumpIdle ==
    /\ prog = None /\ pc = "idle" /\ clearkey = None /\ consulted = FALSE
    /\ novariantcheck = "None" /\ noaudio = "None" /\ novideo = "None"
    /\ process = "none" /\ fd = "unopened" /\ muxed = FALSE
    /\ nread = 0 /\ data = 0 /\ stdout = <<>> /\ nwrite = 0 /\ pipe_broken = FALSE
    /\ exit = "idle" /\ setup_failure = None /\ interrupted = None
    /\ eof_at = 0 /\ broken_at = 0
    /\ cli = [f \in {"novideo", "noaudio", "novariantcheck", "proxy", "proxybypass",
                      "clearkeys"} |-> FALSE]
    /\ frag = <<>> /\ events = <<>> /\ variant = -1 /\ stream = NoStream
    /\ video_stream = None /\ audio_stream = None

\* State when main is entered
InitPump ==
    /\ prog \in Progs
    /\ pc = IF prog = "dispatchduck" THEN "popen" ELSE "args"
    /\ clearkey = None /\ consulted = FALSE
    \* the three flags, and whether -proxy, -proxybypass and -clearkeys are given
    /\ cli \in [novideo : BOOLEAN, noaudio : BOOLEAN, novariantcheck : BOOLEAN,
                 proxy : BOOLEAN, proxybypass : BOOLEAN, clearkeys : BOOLEAN]
    \* -clearkeys is tried in the runs without a proxy
    /\ cli.clearkeys => ~cli.proxy /\ ~cli.proxybypass
    \* the fragment of the input URL: a dict from some of the three flags to
    \* values, with or without a clearkey
    /\ frag \in UNION {{f, f @@ ("clearkey" :> <<"k", "0">>)} :
                        f \in UNION {[ks -> {<<"T", "r", "u", "e">>,
                                             <<"f", "a", "l", "s", "e">>}] :
                                     ks \in SUBSET {"novideo", "noaudio", "novariantcheck"}}}
    /\ prog = "dispatchduck" => frag = <<>> /\ \A f \in DOMAIN cli : ~cli[f]
    /\ novariantcheck = "None" /\ noaudio = "None" /\ novideo = "None"
    /\ process = IF prog = "dispatchduck" THEN "unbound" ELSE "none"
    /\ fd = "unopened" /\ muxed = FALSE
    /\ nread = 0 /\ data = 0 /\ stdout = <<>> /\ nwrite = 0 /\ pipe_broken = FALSE
    /\ exit = "running" /\ setup_failure = None /\ interrupted = None
    /\ eof_at = 0 /\ broken_at = 0
    /\ events = <<>> /\ variant = -1 /\ stream = NoStream
    /\ video_stream = None /\ audio_stream = None

\* main 964: parse_args(); parser.error prints the usage and exits with status 2
W_ParseArgs ==
    /\ PumpFrame
    /\ prog = "dispatchwrapparr" /\ exit = "running" /\ pc = "args"
    /\ IF parse_args_error(cli)
       THEN pc' = "exit" /\ exit' = "exit2" /\ setup_failure' = "usage"
       ELSE pc' = "setup" /\ UNCHANGED <<exit, setup_failure>>
    /\ UNCHANGED <<prog, clearkey, consulted, novariantcheck, noaudio, novideo, process, fd, muxed,
                   nread, data, stdout, nwrite, pipe_broken, interrupted, eof_at,
                   broken_at, cli, frag, events, variant, stream, video_stream,
                   audio_stream>>

\* main 966-1083: the fragments and the flags are merged (found: the source of
\* -clearkeys holds a key for the URL); with -proxybypass
\* proxy_bypass_req is called, which issues its first request when the host of
\* the URL is on the list (matched); the session is set up
W_Setup(matched, found) ==
    /\ PumpFrame
    /\ prog = "dispatchwrapparr" /\ exit = "running" /\ pc = "setup"
    /\ consulted' = clearkeys_consulted(frag, cli)
    /\ (found => cli.clearkeys)
    /\ clearkey' = merged_clearkey(frag, cli, found)
    /\ novariantcheck' = merged_flag(frag, cli, "novariantcheck")
    /\ noaudio' = merged_flag(frag, cli, "noaudio")
    /\ novideo' = merged_flag(frag, cli, "novideo")
    /\ IF bypass_called(cli) /\ matched
       THEN events' = Append(events, "bypass_probe")
       ELSE ~matched /\ UNCHANGED events
    /\ pc' = "streams"
    /\ UNCHANGED <<prog, process, fd, muxed, nread, data, stdout, nwrite,
                   pipe_broken, exit, setup_failure, interrupted, eof_at, broken_at,
                   cli, frag, variant, stream, video_stream, audio_stream>>

\* dispatchwrapparr main 1084-1125: fetch the streams and select one
W_LoadStreams(outcome) ==
    /\ PumpFrame
    /\ prog = "dispatchwrapparr" /\ exit = "running" /\ pc = "streams"
    /\ outcome \in (IF clearkey # None THEN DrmOutcomes ELSE PlainOutcomes)
    /\ setup_failure' = IF outcome = "ok" THEN None ELSE outcome
    /\ pc' = load_next(outcome)
    /\ exit' = IF pc' = "exit" THEN "exit0" ELSE "running"
    /\ events' = Append(events, "streams")
    /\ UNCHANGED <<prog, clearkey, consulted, novariantcheck, noaudio, novideo, process, fd, muxed,
                   nread, data, stdout, nwrite, pipe_broken, interrupted, eof_at,
                   broken_at, cli, frag, variant, stream, video_stream, audio_stream>>

\* main 1127-1139: the variant check on the selected stream st; probe is what
\* the request of check_stream_variant meets, if it is issued
W_Variant(st, probe) ==
    /\ PumpFrame
    /\ prog = "dispatchwrapparr" /\ exit = "running" /\ pc = "variant"
    /\ IF runs_variant_check(novariantcheck, noaudio, novideo)
       THEN LET r == check_stream_variant(st, TRUE, probe)
            IN  /\ st \in StreamKinds
                /\ IF r.probed THEN probe \in ProbeOutcomes ELSE probe = [raised |-> FALSE, ctype |-> <<>>]
                /\ stream' = st
                /\ events' = IF ~r.probed THEN events
                             ELSE IF probe.raised
                             THEN events \o <<"variant_probe", "probe_exception">>
                             ELSE Append(events, "variant_probe")
                /\ IF r.raised
                   THEN /\ exit' = "exception" /\ setup_failure' = "variant_check"
                        /\ pc' = "exit"
                        /\ UNCHANGED <<variant, novideo, noaudio>>
                   ELSE /\ variant' = r.ret
                        /\ novideo' = IF r.ret = 1 THEN "True" ELSE novideo
                        /\ noaudio' = IF r.ret = 2 THEN "True" ELSE noaudio
                        /\ pc' = "synth"
                        /\ UNCHANGED <<exit, setup_failure>>
       ELSE /\ st = NoStream /\ probe = [raised |-> FALSE, ctype |-> <<>>]
            /\ pc' = "synth"
            /\ UNCHANGED <<noaudio, novideo, variant, stream, events, exit, setup_failure>>
    /\ UNCHANGED <<prog, clearkey, consulted, novariantcheck, process, fd, muxed, nread, data,
                   stdout, nwrite, pipe_broken, interrupted, eof_at, broken_at, cli,
                   frag, video_stream, audio_stream>>

\* main 1141-1154: create_silent_audio / create_blank_video start the generator
\* with subprocess.Popen, which raises when ffmpeg cannot be started; the
\* MuxedStream takes (video_stream, audio_stream)
W_Synth(started) ==
    /\ PumpFrame
    /\ prog = "dispatchwrapparr" /\ exit = "running" /\ pc = "synth"
    /\ LET choice == synth_choice(noaudio, novideo)
       IN  IF choice \in {"silent_audio", "blank_video"}
           THEN /\ events' = Append(events, choice)
                /\ IF started
                   THEN /\ process' = "running" /\ muxed' = TRUE /\ pc' = "open"
                        /\ video_stream' = IF choice = "blank_video" THEN choice ELSE "stream"
                        /\ audio_stream' = IF choice = "silent_audio" THEN choice ELSE "stream"
                        /\ UNCHANGED <<exit, setup_failure>>
                   ELSE /\ exit' = "exception" /\ setup_failure' = "generator"
                        /\ pc' = "exit"
                        /\ UNCHANGED <<process, muxed, video_stream, audio_stream>>
           ELSE /\ started
                /\ pc' = "open"
                /\ events' = IF choice = "warning" THEN Append(events, choice) ELSE events
                /\ UNCHANGED <<process, muxed, exit, setup_failure, video_stream,
                               audio_stream>>
    /\ UNCHANGED <<prog, clearkey, consulted, novariantcheck, noaudio, novideo, fd, nread, data,
                   stdout, nwrite, pipe_broken, interrupted, eof_at, broken_at, cli,
                   frag, variant, stream>>

\* main 1158: with stream.open() as fd; a failure is not caught by main
W_Open(ok) ==
    /\ PumpFrame
    /\ prog = "dispatchwrapparr" /\ exit = "running" /\ pc = "open"
    /\ events' = Append(events, "open")
    /\ IF ok
       THEN /\ fd' = "open" /\ pc' = "read"
            /\ UNCHANGED <<exit, setup_failure>>
       ELSE /\ exit' = "exception" /\ setup_failure' = "open" /\ pc' = "exit"
            /\ UNCHANGED fd
    /\ UNCHANGED <<prog, clearkey, consulted, novariantcheck, noaudio, novideo, process, muxed,
                   nread, data, stdout, nwrite, pipe_broken, interrupted, eof_at,
                   broken_at, cli, frag, variant, stream, video_stream, audio_stream>>

\* dispatchduck main 54: subprocess.Popen(cmd, ...); a failure is caught by
\* except Exception, which ends in sys.exit(1)
D_Popen(ok) ==
    /\ PumpFrame
    /\ prog = "dispatchduck" /\ exit = "running" /\ pc = "popen"
    /\ events' = Append(events, "popen")
    /\ IF ok
       THEN /\ process' = "running" /\ pc' = "read"
            /\ UNCHANGED <<exit, setup_failure>>
       ELSE /\ exit' = "exit1" /\ setup_failure' = "popen" /\ pc' = "exit"
            /\ UNCHANGED process
    /\ UNCHANGED <<prog, clearkey, consulted, novariantcheck, noaudio, novideo, fd, muxed,
                   nread, data, stdout, nwrite, pipe_broken, interrupted, eof_at,
                   broken_at, cli, frag, variant, stream, video_stream, audio_stream>>

\* data = fd.read(188 * 64); if not data: break.  After the break the with
\* block closes fd and main returns.
Read(len) ==
    /\ PumpFrame
    /\ exit = "running" /\ pc = "read" /\ nread < MaxReads
    /\ nread' = nread + 1
    /\ data' = len
    /\ eof_at' = IF len = 0 THEN nread' ELSE eof_at
    /\ IF is_eof(len)
       THEN /\ pc' = "exit" /\ exit' = "exit0"
            /\ fd' = IF fd = "open" THEN "closed" ELSE fd
       ELSE /\ pc' = "write"
            /\ UNCHANGED <<exit, fd>>
    /\ UNCHANGED <<prog, clearkey, consulted, novariantcheck, noaudio, novideo, process, muxed,
                   stdout, nwrite, pipe_broken, setup_failure, interrupted, broken_at,
                   cli, frag, events, variant, stream, video_stream, audio_stream>>

\* sys.stdout.buffer.write(data); sys.stdout.buffer.flush()
Write ==
    /\ PumpFrame
    /\ exit = "running" /\ pc = "write"
    /\ nwrite' = nwrite + 1
    /\ IF pipe_broken
       THEN /\ broken_at' = IF broken_at = 0 THEN nwrite' ELSE broken_at
            /\ exit' = broken_pipe_exit(prog)
            /\ pc' = "exit"
            /\ fd' = IF fd = "open" /\ exit' = "exit0" THEN "closed" ELSE fd
            /\ UNCHANGED stdout
       ELSE /\ stdout' = buffer_write(stdout, nread)
            /\ pc' = "read"
            /\ UNCHANGED <<broken_at, exit, fd>>
    /\ UNCHANGED <<prog, clearkey, consulted, novariantcheck, noaudio, novideo, process, muxed,
                   nread, data, pipe_broken, setup_failure, interrupted, eof_at,
                   cli, frag, events, variant, stream, video_stream, audio_stream>>

\* the downstream consumer closes its end of the pipe
ConsumerDisconnect ==
    /\ PumpFrame
    /\ exit = "running" /\ ~pipe_broken
    /\ pipe_broken' = TRUE
    /\ UNCHANGED <<prog, pc, clearkey, consulted, novariantcheck, noaudio, novideo, process, fd,
                   muxed, nread, data, stdout, nwrite, exit, setup_failure, interrupted,
                   eof_at, broken_at,
                   cli, frag, events, variant, stream, video_stream, audio_stream>>

\* KeyboardInterrupt.  dispatchwrapparr catches it in the try block only: the
\* with block closes fd and main returns; its generator subprocess is not
\* touched.  dispatchduck: see duck_interrupt.
Interrupt ==
    /\ PumpFrame
    /\ exit = "running" /\ interrupted = None
    /\ interrupted' = pc
    /\ pc' = "exit"
    /\ IF prog = "dispatchduck"
       THEN /\ process' = duck_interrupt(process).process
            /\ exit' = duck_interrupt(process).exit
            /\ UNCHANGED fd
       ELSE /\ exit' = IF pc \in TryPositions(prog) THEN "exit0" ELSE "exception"
            /\ fd' = IF fd = "open" THEN "closed" ELSE fd
            /\ UNCHANGED process
    /\ UNCHANGED <<prog, clearkey, consulted, novariantcheck, noaudio, novideo, muxed, nread, data,
                   stdout, nwrite, pipe_broken, setup_failure, eof_at, broken_at,
                   cli, frag, events, variant, stream, video_stream, audio_stream>>

(***************************************************************************)
(* Key Normalizer: MPEGDASHDRM._process_keys, and the way main and         *)
(* _get_streams hand keys to it.  A string is a sequence of characters.    *)
(***************************************************************************)
\* the alphabet of base64, in the order of its values 0..63
B64Alphabet ==
    <<"A", "B", "C", "D", "E", "F", "G", "H", "I", "J", "K", "L", "M", "N", "O", "P",
      "Q", "R", "S", "T", "U", "V", "W", "X", "Y", "Z", "a", "b", "c", "d", "e", "f",
      "g", "h", "i", "j", "k", "l", "m", "n", "o", "p", "q", "r", "s", "t", "u", "v",
      "w", "x", "y", "z", "0", "1", "2", "3", "4", "5", "6", "7", "8", "9", "+", "/">>

HexDigits == <<"0", "1", "2", "3", "4", "5", "6", "7", "8", "9", "a", "b", "c", "d", "e", "f">>

UpperHexDigits == {"A", "B", "C", "D", "E", "F"}

\* str.split(':')[-1]: what follows the last colon
RECURSIVE split_last(_)
split_last(k) ==
    IF \E i \in 1..Len(k) : k[i] = ":"
    THEN split_last(SubSeq(k, (CHOOSE i \in 1..Len(k) : k[i] = ":") + 1, Len(k)))
    ELSE k

\* ",".join(entries): the clearkey string of a run
RECURSIVE join(_)
join(entries) ==
    IF Len(entries) = 1 THEN entries[1]
    ELSE entries[1] \o <<",">> \o join(Tail(entries))

\* padding = 4 - (len(b64_string) % 4)
b64_padding(len) == 4 - (len % 4)

\* "=" * padding
pad(n) == [i \in 1..n |-> "="]

\* base64.urlsafe_b64decode first translates "-" to "+" and "_" to "/"
urlsafe_translate(c) == IF c = "-" THEN "+" ELSE IF c = "_" THEN "/" ELSE c

\* the value of a character of the alphabet, 64 for any other character
b64_value(c) ==
    IF \E v \in 1..64 : B64Alphabet[v] = c
    THEN (CHOOSE v \in 1..64 : B64Alphabet[v] = c) - 1
    ELSE 64

\* binascii.a2b_base64 in its default (non-strict) mode: characters outside the
\* alphabet are skipped, a complete padding ends the input, and data left in an
\* open quad is an error (binascii.Error).
RECURSIVE a2b_base64(_, _, _, _, _)
a2b_base64(s, quad_pos, leftchar, pads, out) ==
    IF s = <<>>
    THEN [error |-> quad_pos # 0, bytes |-> out]
    ELSE LET c == Head(s)
             v == b64_value(c)
         IN  IF c = "="
             THEN IF quad_pos >= 2 /\ quad_pos + pads + 1 >= 4
                  THEN [error |-> FALSE, bytes |-> out]
                  ELSE a2b_base64(Tail(s), quad_pos, leftchar,
                                  IF quad_pos >= 2 THEN pads + 1 ELSE pads, out)
             ELSE IF v >= 64
             THEN a2b_base64(Tail(s), quad_pos, leftchar, pads, out)
             ELSE CASE quad_pos = 0 -> a2b_base64(Tail(s), 1, v, 0, out)
                    [] quad_pos = 1 ->
                         a2b_base64(Tail(s), 2, v % 16, 0,
                                    Append(out, leftchar * 4 + v \div 16))
                    [] quad_pos = 2 ->
                         a2b_base64(Tail(s), 3, v % 4, 0,
                                    Append(out, leftchar * 16 + v \div 4))
                    [] OTHER ->
                         a2b_base64(Tail(s), 0, 0, 0, Append(out, leftchar * 64 + v))

\* base64.urlsafe_b64decode(s)
urlsafe_b64decode(s) ==
    a2b_base64([i \in 1..Len(s) |-> urlsafe_translate(s[i])], 0, 0, 0, <<>>)

\* A wrong digit order: low nibble first
hex_byte_swapped(b) == <<HexDigits[(b % 16) + 1], HexDigits[(b \div 16) + 1]>>

\* the two lower-case hex digits of a byte
hex_byte(b) == <<HexDigits[(b \div 16) + 1], HexDigits[(b % 16) + 1]>>

\* bytes.hex()
RECURSIVE hex(_)
hex(bytes) == IF bytes = <<>> THEN <<>> ELSE hex_byte(Head(bytes)) \o hex(Tail(bytes))

is_hex_char(c) == (\E v \in 1..16 : HexDigits[v] = c) \/ c \in UpperHexDigits

RECURSIVE lstrip(_)
lstrip(s) == IF s # <<>> /\ Head(s) = " " THEN lstrip(Tail(s)) ELSE s

RECURSIVE rstrip(_)
rstrip(s) == IF s # <<>> /\ s[Len(s)] = " " THEN rstrip(SubSeq(s, 1, Len(s) - 1)) ELSE s

\* int(s, 16) does not raise ValueError: surrounding whitespace, a sign and a
\* 0x prefix are allowed, and single underscores between digits (or right
\* after the prefix)
int16_parses(s) ==
    LET t == rstrip(lstrip(s))
        u == IF t # <<>> /\ t[1] \in {"+", "-"} THEN Tail(t) ELSE t
        prefixed == Len(u) >= 2 /\ u[1] = "0" /\ u[2] \in {"x", "X"}
        d == IF prefixed THEN SubSeq(u, 3, Len(u)) ELSE u
    IN  /\ d # <<>>
        /\ \A i \in 1..Len(d) : is_hex_char(d[i]) \/ d[i] = "_"
        /\ d[Len(d)] # "_"
        /\ d[1] = "_" => prefixed
        /\ \A i \in 1..(Len(d) - 1) : ~(d[i] = "_" /\ d[i + 1] = "_")

\* lines 125-130, for a key of 32 characters: the sanity check int(key[-1], 16)
accepts32(s) == int16_parses(s)

\* One pass of the loop of _process_keys over the entry k (lines 108-133):
\* the exception it raises, None if none, and the key it appends.
process_key(k) ==
    LET cand == split_last(k)
        len0 == Len(cand)
        tried == len0 \in {21, 22, 23, 24}
        dec == IF tried THEN urlsafe_b64decode(cand \o pad(b64_padding(len0)))
               ELSE [error |-> FALSE, bytes |-> <<>>]
        b64_key == hex(dec.bytes)
        last == IF tried /\ ~dec.error /\ b64_key # <<>> THEN b64_key ELSE cand
    IN  IF dec.error THEN [raised |-> "binascii.Error", key |-> <<>>]
        ELSE IF Len(last) = 32 /\ accepts32(last) THEN [raised |-> None, key |-> last]
        ELSE [raised |-> "FatalPluginError", key |-> <<>>]

\* the candidates of the model: two characters alternating over a length
Alt(a, b, len) == [i \in 1..len |-> IF i % 2 = 1 THEN a ELSE b]

CandLengths == {21, 22, 23, 24, 31, 32, 33}

CandPairs == {<<"0", "f">>, <<"A", "b">>, <<"g", "0">>}

Candidates ==
    {Alt(p[1], p[2], len) : p \in CandPairs, len \in CandLengths}
    \cup {<<"-">> \o Alt("1", "f", 31),          \* a signed number of 32 characters
          <<"0", "x">> \o Alt("1", "f", 30),     \* a prefixed number of 32 characters
          Alt("0", "f", 22) \o <<"=", "=">>}     \* base64 with its own padding

\* an entry is a candidate, or kid:candidate
Kid == <<"k", "1", ":">>

Entries ==
    Candidates \cup {Kid \o Alt("0", "f", 32), Kid \o Alt("A", "b", 22),
                     Kid \o Alt("A", "b", 31)}

EntryLists == UNION {[1..n -> Entries] : n \in 1..MaxEntries}

\* main 1093: plugin.options["decryption-key"] = [clearkey]
main_decryption_key(clearkey_string) == <<clearkey_string>>

KeyIdle ==
    /\ kp_pc = "idle" /\ clearkeys = <<>> /\ via_main = FALSE /\ key_option = <<>>
    /\ kp_idx = 0 /\ return_keys = <<>> /\ kp_error = None

\* State on entry of _process_keys.  The option is the list that Streamlink's
\* comma_list argument type made of the entries, or what main put there.
InitKeys ==
    /\ kp_pc = "loop"
    /\ clearkeys \in EntryLists
    /\ via_main \in BOOLEAN
    /\ key_option = IF via_main THEN main_decryption_key(join(clearkeys)) ELSE clearkeys
    /\ kp_idx = 0 /\ return_keys = <<>> /\ kp_error = None

\* for k in keys: one entry
KP_Entry ==
    /\ KeyFrame
    /\ kp_pc = "loop" /\ kp_idx < Len(key_option)
    /\ kp_idx' = kp_idx + 1
    /\ LET r == process_key(key_option[kp_idx'])
       IN  IF r.raised = None
           THEN /\ return_keys' = Append(return_keys, r.key)
                /\ UNCHANGED <<kp_pc, kp_error>>
           ELSE /\ kp_pc' = "raised" /\ kp_error' = r.raised
                /\ UNCHANGED return_keys
    /\ UNCHANGED <<clearkeys, via_main, key_option, optVars>>

\* return return_keys, stored by _get_streams in the session (line 96)
KP_Return ==
    /\ KeyFrame
    /\ kp_pc = "loop" /\ kp_idx = Len(key_option)
    /\ kp_pc' = "returned"
    /\ decryption_key' = return_keys
    /\ UNCHANGED <<clearkeys, via_main, key_option, kp_idx, return_keys, kp_error,
                   use_subtitles, args_subtitles>>


(***************************************************************************)
(* Representation Selector, second half: DASHStreamDRM.parse_manifest from *)
(* the language choice to the returned dict (lines 457-523).  Names are    *)
(* sequences of characters.                                                *)
(***************************************************************************)
Digits == <<"0", "1", "2", "3", "4", "5", "6", "7", "8", "9">>

\* the decimal digits of a natural number, as f"{n:0.0f}" and f"{n}" give them
RECURSIVE digits(_)
digits(n) == IF n < 10 THEN <<Digits[n + 1]>>
             ELSE digits(n \div 10) \o <<Digits[(n % 10) + 1]>>

\* 10 ** (number of digits of b - 2), 1 below 100
RECURSIVE round_unit(_)
round_unit(b) == IF b < 100 THEN 1 ELSE 10 * round_unit(b \div 10)

\* Representation.bandwidth_rounded: round(bandwidth, 1 - int(log10(bandwidth))),
\* two significant digits, a tie going to the even neighbour
bandwidth_rounded(b) ==
    LET u == round_unit(b)
        q == b \div u
        r == b % u
    IN  IF 2 * r > u \/ (2 * r = u /\ q % 2 = 1) THEN (q + 1) * u ELSE q * u

\* a bucket entry that is a Representation, not the None placeholder
is_rep(r) == r.mimeType # None

\* what the model distinguishes in a video representation: bandwidth in kbit/s
\* and height, 0 for a height that is absent
VideoKinds == {[bandwidth |-> 504, height |-> 0], [bandwidth |-> 1000, height |-> 0],
               [bandwidth |-> 504, height |-> 720], [bandwidth |-> 1000, height |-> 720]}

\* the lang attribute of an audio representation
AudioLangs == {None, "en", "fr", "fra"}

video_rep(i, kind) == [id |-> i, mimeType |-> "video", bandwidth |-> kind.bandwidth,
                       height |-> kind.height, lang |-> None]

audio_rep(i, l) == [id |-> i, mimeType |-> "audio", bandwidth |-> 128, height |-> 0,
                    lang |-> l]

\* lines 412-414: video = [None] if with_audio_only else [], and the like
initial_bucket(flag) == IF flag THEN <<NoneRep>> ELSE <<>>

\* the buckets as lines 412-455 leave them: the initial None if there is one,
\* then the representations in manifest order; the placeholder if that is empty
VideoBuckets(flag) ==
    {placeholder(initial_bucket(flag) \o reps) :
        reps \in UNION {{[i \in 1..n |-> video_rep(i, f[i])] : f \in [1..n -> VideoKinds]} :
                        n \in 0..MaxVideo}}

AudioBuckets(flag, langs) ==
    {placeholder(initial_bucket(flag) \o reps) :
        reps \in UNION {{[i \in 1..n |-> audio_rep(i, f[i])] : f \in [1..n -> langs]} :
                        n \in 0..MaxAudio}}

SubtitleBuckets(flag) ==
    {placeholder(initial_bucket(flag) \o reps) :
        reps \in {<<>>, <<[id |-> 1, mimeType |-> "application", bandwidth |-> 1,
                           height |-> 0, lang |-> None]>>}}

\* Language.get(code): the language a code stands for; fr and fra are the
\* two-letter and the three-letter code of one language
language_get(code) == IF code = "en" THEN "English" ELSE "French"

Locales == {[explicit |-> FALSE, language |-> "English"],
            [explicit |-> TRUE, language |-> "French"],
            [explicit |-> TRUE, language |-> "English"]}

\* lines 457-466: the last audio language that equals an explicit locale
RECURSIVE locale_choice(_, _, _)
locale_choice(auds, loc, chosen) ==
    IF auds = <<>> THEN chosen
    ELSE LET aud == Head(auds)
             hit == is_rep(aud) /\ aud.lang # None /\ loc.explicit
                    /\ language_get(aud.lang) = loc.language
         IN  locale_choice(Tail(auds), loc, IF hit THEN aud.lang ELSE chosen)

\* available_languages
available_languages(auds) ==
    {auds[i].lang : i \in {j \in 1..Len(auds) : is_rep(auds[j]) /\ auds[j].lang # None}}

\* lines 468-470: if not lang: lang = audio[0].lang if audio[0] else None
chosen_lang(auds, loc) ==
    LET byloc == locale_choice(auds, loc, None)
    IN  IF byloc # None THEN byloc
        ELSE IF is_rep(auds[1]) THEN auds[1].lang ELSE None

\* lines 477-478
filter_audio(auds, l) ==
    IF Cardinality(available_languages(auds)) > 1
    THEN LET keep(a) == is_rep(a) /\ (a.lang = None \/ a.lang = l)
         IN  SelectSeq(auds, keep)
    ELSE auds

\* f"{vid.height or vid.bandwidth_rounded:0.0f}{'p' if vid.height else 'k'}",
\* the empty name when there is no video
stream_name(vid) ==
    IF ~is_rep(vid) THEN <<>>
    ELSE IF vid.height # 0 THEN digits(vid.height) \o <<"p">>
    ELSE digits(bandwidth_rounded(vid.bandwidth)) \o <<"k">>

\* DASHStreamDRM(session, mpd, vid, audio, subtitles): the stream gets the
\* whole audio list, whatever the audio of the pair is
new_stream(vid, auds, subs) ==
    [video_representation |-> vid, audio_representation |-> auds[1],
     audio_representations |-> auds, subtitles_representations |-> subs]

\* lines 482-492: one (name, stream) per pair of itertools.product(video, audio)
\* that is not (None, None); pair records which pair made the entry
product_ret(vids, auds, subs) ==
    LET pairs == [k \in 1..(Len(vids) * Len(auds)) |->
                    [v |-> ((k - 1) \div Len(auds)) + 1, a |-> ((k - 1) % Len(auds)) + 1]]
        formed(p) == is_rep(vids[p.v]) \/ is_rep(auds[p.a])
        kept == SelectSeq(pairs, formed)
    IN  [k \in 1..Len(kept) |->
            [name |-> stream_name(vids[kept[k].v]),
             stream |-> new_stream(vids[kept[k].v], auds, subs),
             pair |-> kept[k]]]

\* the keys of dict_value_list, in insertion order
RECURSIVE group_names(_, _)
group_names(entries, seen) ==
    IF entries = <<>> THEN <<>>
    ELSE IF Head(entries).name \in seen THEN group_names(Tail(entries), seen)
    ELSE <<Head(entries).name>> \o group_names(Tail(entries), seen \cup {Head(entries).name})

\* dict_value_list[q]
group_items(entries, q) == LET same(e) == e.name = q IN SelectSeq(entries, same)

\* sortby_bandwidth
sortby_bandwidth(e) ==
    IF is_rep(e.stream.video_representation)
    THEN e.stream.video_representation.bandwidth ELSE 0

\* A wrong sort: an item goes before the items of the same bandwidth
insert_desc_before_ties(s, x) ==
    LET k == Cardinality({i \in 1..Len(s) : sortby_bandwidth(s[i]) > sortby_bandwidth(x)})
    IN  SubSeq(s, 1, k) \o <<x>> \o SubSeq(s, k + 1, Len(s))

\* the place of x in a list sorted by descending key: after every item whose
\* key is not smaller
insert_desc(s, x) ==
    LET k == Cardinality({i \in 1..Len(s) : sortby_bandwidth(s[i]) >= sortby_bandwidth(x)})
    IN  SubSeq(s, 1, k) \o <<x>> \o SubSeq(s, k + 1, Len(s))

\* sorted(items, key=sortby_bandwidth, reverse=True): stable
RECURSIVE sorted_desc(_, _)
sorted_desc(items, acc) ==
    IF items = <<>> THEN acc
    ELSE sorted_desc(Tail(items), insert_desc(acc, Head(items)))

\* A wrong suffix: every duplicate after the first is named q_alt
alt_name_same(q, n) == IF n = 0 THEN q ELSE q \o <<"_", "a", "l", "t">>

\* q, f"{q}_alt", f"{q}_alt{n}"
alt_name(q, n) ==
    IF n = 0 THEN q
    ELSE IF n = 1 THEN q \o <<"_", "a", "l", "t">>
    ELSE q \o <<"_", "a", "l", "t">> \o digits(n)

\* ret_new[name] = e: a new key is appended, an old key gets the new value
dict_set(d, name, e) ==
    IF \E i \in 1..Len(d) : d[i].name = name
    THEN [i \in 1..Len(d) |-> IF d[i].name = name
                              THEN [name |-> name, stream |-> e.stream, pair |-> e.pair]
                              ELSE d[i]]
    ELSE Append(d, [name |-> name, stream |-> e.stream, pair |-> e.pair])

\* for n in range(len(items)): ret_new[...] = items[n]
RECURSIVE rename_items(_, _, _, _)
rename_items(d, q, items, n) ==
    IF n = Len(items) THEN d
    ELSE rename_items(dict_set(d, alt_name(q, n), items[n + 1]), q, items, n + 1)

\* for q in dict_value_list: ...
RECURSIVE rename_groups(_, _, _)
rename_groups(d, names, entries) ==
    IF names = <<>> THEN d
    ELSE rename_groups(
             rename_items(d, Head(names),
                          sorted_desc(group_items(entries, Head(names)), <<>>), 0),
             Tail(names), entries)

\* State of parse_manifest after the placeholders (line 456)
InitVariants ==
    /\ pm_pc = "buckets"
    /\ aset_count = 0 /\ rep_count = 0 /\ pm_error = None /\ protected_seen = FALSE
    /\ \/ \* the default parameters, any video bucket
          /\ with_video_only = FALSE /\ with_audio_only = FALSE
          /\ video \in VideoBuckets(with_audio_only)
          /\ audio \in AudioBuckets(with_video_only, {None, "en"})
          /\ locale \in {l \in Locales : ~l.explicit}
       \/ \* any parameters, audio languages and locale; at most one video
          /\ with_video_only \in BOOLEAN /\ with_audio_only \in BOOLEAN
          /\ video \in {b \in VideoBuckets(with_audio_only) :
                            \A i \in 1..Len(b) : b[i].id <= 1}
          /\ audio \in AudioBuckets(with_video_only, AudioLangs)
          /\ locale \in Locales
       \/ \* the default parameters, one video of 720 lines and two of 1080
          /\ with_video_only = FALSE /\ with_audio_only = FALSE
          /\ video \in {<<video_rep(1, [bandwidth |-> k[1], height |-> 720]),
                           video_rep(2, [bandwidth |-> k[2], height |-> 1080]),
                           video_rep(3, [bandwidth |-> k[3], height |-> 1080])>> :
                            k \in [{1, 2, 3} -> {504, 1000}]}
          /\ audio \in AudioBuckets(with_video_only, {"en"})
          /\ locale \in {l \in Locales : ~l.explicit}
    /\ subtitles \in SubtitleBuckets(with_audio_only)
    /\ period_audio = audio
    /\ lang = None /\ ret = <<>> /\ ret_new = <<>> /\ selected = <<>>
    /\ opened = [readers |-> <<>>, result |-> "unopened"]

\* lines 457-478: the language and the audio representations that stay
PV_Language ==
    /\ PvFrame
    /\ pm_pc = "buckets"
    /\ lang' = chosen_lang(audio, locale)
    /\ audio' = filter_audio(audio, lang')
    /\ pm_pc' = "language"
    /\ UNCHANGED <<aset_count, rep_count, video, subtitles, pm_error, protected_seen,
                   locale, ret, ret_new, with_video_only, with_audio_only, period_audio,
                   selected, opened>>

\* lines 480-492: the product
PV_Product ==
    /\ PvFrame
    /\ pm_pc = "language"
    /\ ret' = product_ret(video, audio, subtitles)
    /\ pm_pc' = "product"
    /\ UNCHANGED <<aset_count, rep_count, video, audio, subtitles, pm_error,
                   protected_seen, locale, lang, ret_new, with_video_only,
                   with_audio_only, period_audio, selected, opened>>

\* lines 494-523: the duplicates are renamed and the dict is returned
PV_Rename ==
    /\ PvFrame
    /\ pm_pc = "product"
    /\ ret_new' = rename_groups(<<>>, group_names(ret, {}), ret)
    /\ pm_pc' = "returned"
    /\ UNCHANGED <<aset_count, rep_count, video, audio, subtitles, pm_error,
                   protected_seen, locale, lang, ret, with_video_only,
                   with_audio_only, period_audio, selected, opened>>

\* int(str) of a string of decimal digits
RECURSIVE int(_)
int(str) ==
    IF str = <<>> THEN 0
    ELSE 10 * int(SubSeq(str, 1, Len(str) - 1))
         + (CHOOSE d \in 0..9 : Digits[d + 1] = str[Len(str)])

\* A wrong weight: the _alt suffix costs nothing
stream_weight_alt_free(name) ==
    LET isdigit(c) == \E d \in 0..9 : Digits[d + 1] = c
        n == Cardinality({i \in 1..Len(name) : \A j \in 1..i : isdigit(name[j])})
    IN  IF n = 0 \/ n = Len(name) THEN 0 ELSE int(SubSeq(name, 1, n))

\* MPEGDASHDRM.stream_weight(name)[0].  No name of parse_manifest matches the
\* pattern of line 77 (audio only, a<digits>k), so line 85 hands the name to
\* Streamlink's stream_weight, which reads
\* ^(\d+)(k|p)?(\d+)?(\+)?(?:[a_](\d+)k)?(?:_(alt)(\d)?)?$ : the number in
\* front of k or p, less 1 for _alt and less d for _alt<d>; 0 for any other name
stream_weight(name) ==
    LET isdigit(c) == \E d \in 0..9 : Digits[d + 1] = c
        n == Cardinality({i \in 1..Len(name) : \A j \in 1..i : isdigit(name[j])})
        rest == SubSeq(name, n + 1, Len(name))
        alt == <<"_", "a", "l", "t">>
    IN  IF n = 0 \/ rest = <<>> \/ rest[1] \notin {"k", "p"} THEN 0
        ELSE IF Len(rest) = 1 THEN int(SubSeq(name, 1, n))
        ELSE IF Tail(rest) = alt THEN int(SubSeq(name, 1, n)) - 1
        ELSE IF Len(rest) = 6 /\ SubSeq(rest, 2, 5) = alt /\ isdigit(rest[6])
             THEN int(SubSeq(name, 1, n)) - int(<<rest[6]>>)
        ELSE 0

\* plugin.streams(): the entry that gets the name best, in a list: the last of
\* the names sorted by weight, names of weight 0 left out unless the name is
\* the only one
streams_best(d) ==
    LET w(i) == IF Len(d) = 1 /\ stream_weight(d[i].name) = 0 THEN 1
                ELSE stream_weight(d[i].name)
        RECURSIVE last_best(_, _, _)
        last_best(i, b, wb) ==
            IF i > Len(d) THEN b
            ELSE LET wi == w(i)
                 IN  IF wi # 0 /\ (b = 0 \/ wi >= wb) THEN last_best(i + 1, i, wi)
                     ELSE last_best(i + 1, b, wb)
        best == last_best(1, 0, 0)
    IN  IF best = 0 THEN <<>> ELSE <<d[best]>>

\* main 1099-1120: streams = plugin.streams();
\* stream = streams.get("best") or streams.get("live") or
\* next(iter(streams.values()), None)
PV_Select ==
    /\ PvFrame
    /\ pm_pc = "returned"
    /\ selected' = LET best == streams_best(ret_new)
                   IN  IF best # <<>> THEN best
                       ELSE IF ret_new # <<>> THEN <<ret_new[1]>>
                       ELSE <<>>
    /\ pm_pc' = "selected"
    /\ UNCHANGED <<aset_count, rep_count, video, audio, subtitles, pm_error,
                   protected_seen, locale, lang, ret, ret_new, with_video_only,
                   with_audio_only, period_audio, opened>>

\* DASHStreamDRM.open: a reader for the video representation if there is one,
\* then one for every entry of audio_representations (if rep_audios: is true of
\* any list that is not empty, and the entry None makes line 552 raise
\* AttributeError), then one for every subtitle if the first subtitle entry
\* and the video are there; the return value of lines 567-572 (usable:
\* FFMPEGMuxerDRM.is_usable)
open_stream(st, usable) ==
    LET rep_video == st.video_representation
        rep_audios == st.audio_representations
        rep_subtitles == st.subtitles_representations
        fds_video == IF rep_video # NoneRep THEN <<rep_video>> ELSE <<>>
        none_at == {i \in 1..Len(rep_audios) : rep_audios[i] = NoneRep}
        first_none == CHOOSE i \in none_at : \A j \in none_at : i <= j
        with_subtitles == rep_subtitles # <<>> /\ rep_subtitles[1] # NoneRep
                          /\ rep_video # NoneRep
    IN  IF none_at # {}
        THEN [readers |-> fds_video \o SubSeq(rep_audios, 1, first_none),
              result |-> "AttributeError"]
        ELSE [readers |-> fds_video \o rep_audios
                          \o (IF with_subtitles THEN rep_subtitles ELSE <<>>),
              result |-> IF rep_video # NoneRep /\ rep_audios # <<>> /\ usable THEN "muxer"
                         ELSE IF rep_video # NoneRep THEN "video"
                         ELSE IF rep_audios # <<>> THEN "audio1"
                         ELSE None]

\* main 1158: with stream.open() as fd, on a stream of the dashdrm plugin
PV_Open(usable) ==
    /\ PvFrame
    /\ pm_pc = "selected" /\ selected # <<>>
    /\ opened' = open_stream(selected[1].stream, usable)
    /\ pm_pc' = "opened"
    /\ UNCHANGED <<aset_count, rep_count, video, audio, subtitles, pm_error,
                   protected_seen, locale, lang, ret, ret_new, with_video_only,
                   with_audio_only, period_audio, selected>>


(***************************************************************************)
(* Segment worker: DASHStreamWorkerDRM.iter_segments                       *)
(***************************************************************************)
WkIdle ==
    /\ wk_pc = "idle" /\ mpd_type = None /\ ident = 0 /\ representation = FALSE
    /\ new_rep = 0 /\ yield_count = -1 /\ closed = FALSE /\ init = TRUE
    /\ segs = 0 /\ yielded = <<>> /\ iter = 0 /\ wk_log = <<>>

PsIdle ==
    /\ ps_pc = <<>> /\ db_settings = <<>> /\ cfg = <<>> /\ ps_args = <<>>

\* the outcomes of check_new_rep: None (no later period, or a reader that is
\* neither video/mp4 nor audio/mp4, or no such representation in the stream of
\* the next period), the representation of the next period, or an exception
\* (ValueError of index() in line 219, an error of parse_manifest, KeyError in
\* line 241 when the next period has no stream of this name)
CheckOutcomes == {"none", "rep", "raise"}

\* A wrong test: the pending representation is taken whatever was yielded
swaps_always(nr, yc) == nr # 0

\* if new_rep and not yield_count
swaps(nr, yc) == nr # 0 /\ yc = 0

\* lines 258-261 have run: the generator is at its first while test
InitWorker ==
    /\ wk_pc = "head"
    /\ mpd_type \in {"static", "dynamic"}
    /\ ident = 1 /\ representation = FALSE /\ new_rep = 0 /\ yield_count = -1
    /\ closed = FALSE /\ init = TRUE /\ segs = 0 /\ yielded = <<>> /\ iter = 0
    /\ wk_log = <<>>
    /\ BypIdle /\ ManIdle /\ PvIdle /\ MuxIdle /\ PumpIdle /\ KeyIdle /\ PsIdle
    /\ decryption_key = <<"key0">> /\ use_subtitles = FALSE /\ args_subtitles = None

\* lines 262-306: one iteration of the while loop up to the for loop.  found:
\* mpd.get_representation finds reader.ident; check: what check_new_rep does if
\* it is called; n: the segments of the pass.  The waiting time (refresh_wait,
\* back_off_factor) delays the pass and decides nothing else.
IS_Head(found, check, n) ==
    /\ WkFrame
    /\ wk_pc = "head" /\ iter < MaxIters
    /\ IF closed
       THEN /\ wk_pc' = "returned"
            /\ check = "none" /\ ~found /\ n = 0
            /\ UNCHANGED <<ident, representation, new_rep, yield_count, segs, iter, wk_log>>
       ELSE LET called == new_rep = 0
                nr == IF ~called THEN new_rep
                      ELSE IF check = "rep" THEN ident + 1 ELSE 0
                swap == swaps(nr, yield_count)
                rep == found \/ swap
            IN  /\ iter' = iter + 1
                /\ (~called => check = "none")
                /\ wk_log' = Append(wk_log, [found |-> found, called |-> called,
                                             pending |-> new_rep # 0, yc |-> yield_count,
                                             switched |-> check # "raise" /\ swap,
                                             passed |-> check # "raise" /\ rep])
                /\ IF check = "raise"
                   THEN /\ wk_pc' = "raised" /\ n = 0
                        /\ UNCHANGED <<ident, representation, new_rep, yield_count, segs>>
                   ELSE /\ ident' = IF swap THEN nr ELSE ident
                        /\ new_rep' = IF swap THEN 0 ELSE nr
                        /\ representation' = rep
                        /\ IF rep
                           THEN /\ wk_pc' = "pass" /\ segs' = n /\ yield_count' = 0
                           ELSE /\ wk_pc' = "head" /\ n = 0
                                /\ UNCHANGED <<segs, yield_count>>
    /\ UNCHANGED <<mpd_type, closed, init, yielded>>

\* lines 307-311: the for loop yields one more segment
IS_Yield ==
    /\ WkFrame
    /\ wk_pc = "pass" /\ yield_count < segs /\ ~closed
    /\ yield_count' = yield_count + 1
    /\ yielded' = Append(yielded, <<iter, yield_count'>>)
    /\ UNCHANGED <<wk_pc, mpd_type, ident, representation, new_rep, closed, init, segs,
                   iter, wk_log>>

\* lines 308-309 and 313-323: the for loop ends, by exhaustion or by the break
\* on self.closed; ok: the value of self.reload()
IS_PassEnd(ok) ==
    /\ WkFrame
    /\ wk_pc = "pass" /\ (yield_count = segs \/ closed)
    /\ IF mpd_type # "dynamic"                       \* self.close(); return
       THEN /\ closed' = TRUE /\ wk_pc' = "returned" /\ ok
            /\ UNCHANGED init
       ELSE /\ init' = FALSE /\ wk_pc' = "head"
            /\ UNCHANGED closed
    /\ UNCHANGED <<mpd_type, ident, representation, new_rep, yield_count, segs, yielded,
                   iter, wk_log>>

\* the reader is closed from outside while the generator is suspended
IS_Close ==
    /\ WkFrame
    /\ wk_pc \in {"head", "pass"} /\ ~closed
    /\ closed' = TRUE
    /\ UNCHANGED <<wk_pc, mpd_type, ident, representation, new_rep, yield_count, init,
                   segs, yielded, iter, wk_log>>


(***************************************************************************)
(* Plugin.persist_settings (dispatchduck_plugin and dispatchwrapparr_plugin *)
(* have the same code)                                                     *)
(***************************************************************************)
\* MaxCalls calls on one plugin key are about to start; call c sets its keys
\* to the value c
InitPersist ==
    /\ ps_pc = [c \in 1..MaxCalls |-> "get"]
    /\ db_settings \in {[k \in ks |-> 0] : ks \in {{}, {"x", "y"}}}
    /\ cfg = [c \in 1..MaxCalls |-> <<>>]
    /\ \E ks \in [1..MaxCalls -> (SUBSET {"x", "y"}) \ {{}}],
          cl \in [1..MaxCalls -> {{}, {"x"}}] :
          ps_args = [c \in 1..MaxCalls |->
                        [updates |-> [k \in ks[c] |-> c], clear |-> cl[c]]]
    /\ BypIdle /\ ManIdle /\ PvIdle /\ MuxIdle /\ PumpIdle /\ KeyIdle /\ WkIdle
    /\ decryption_key = <<>> /\ use_subtitles = FALSE /\ args_subtitles = None

\* with transaction.atomic(): cfg, _ = ...select_for_update().get_or_create(...)
\* The row is read under its lock; the lock goes with the end of the block.
PS_Get(c) ==
    /\ PsFrame
    /\ ps_pc[c] = "get"
    /\ cfg' = [cfg EXCEPT ![c] = db_settings]
    /\ ps_pc' = [ps_pc EXCEPT ![c] = "save"]
    /\ UNCHANGED <<db_settings, ps_args>>

\* for key in clear: cfg.settings.pop(key, None); cfg.settings.update(updates);
\* cfg.save(update_fields=["settings", "updated_at"]): the whole settings value
\* of the object replaces the one of the row
PS_Save(c) ==
    /\ PsFrame
    /\ ps_pc[c] = "save"
    /\ LET upd == ps_args[c].updates
           kept == DOMAIN cfg[c] \ ps_args[c].clear
           new == [k \in kept \cup DOMAIN upd |-> IF k \in DOMAIN upd THEN upd[k]
                                                   ELSE cfg[c][k]]
       IN  /\ cfg' = [cfg EXCEPT ![c] = new]
           /\ db_settings' = new
    /\ ps_pc' = [ps_pc EXCEPT ![c] = "done"]
    /\ UNCHANGED ps_args


(***************************************************************************)
(* Specifications                                                          *)
(***************************************************************************)
InitB == InitBypass /\ WkIdle /\ PsIdle /\ ManIdle /\ MuxIdle /\ PumpIdle /\ KeyIdle
         /\ decryption_key = <<>> /\ use_subtitles = FALSE /\ args_subtitles = None

NextBypass ==
    \/ MainNoBypass
    \/ BypassCall
    \/ Probe200
    \/ \E location \in URLS \cup {None} : ProbeRedirect(location)
    \/ ProbeOtherStatus
    \/ ProbeException
    \/ MainApply

SpecBypass == InitB /\ [][NextBypass]_vars

\* every request is answered or fails within its timeout of 5 seconds, and main
\* goes on once proxy_bypass_req has returned
SpecBypassLive == SpecBypass /\ WF_vars(NextBypass)

InitM == InitManifest /\ WkIdle /\ PsIdle /\ PvIdle /\ BypIdle /\ MuxIdle /\ PumpIdle /\ KeyIdle
         /\ decryption_key \in {<<>>, <<"key0">>} /\ use_subtitles \in BOOLEAN
         /\ args_subtitles = None

NextManifest ==
    \/ \E outcome \in {"ok", "parse_mpd", "period"} : PM_Load(outcome)
    \/ \E aset_cp \in BOOLEAN : PM_ASet(aset_cp)
    \/ \E mime \in MimeTypes, rep_cp \in BOOLEAN : PM_Rep(mime, rep_cp)
    \/ PM_Placeholders

SpecManifest == InitM /\ [][NextManifest]_vars

InitX == InitMux /\ WkIdle /\ PsIdle /\ BypIdle /\ ManIdle /\ PumpIdle /\ KeyIdle
         /\ decryption_key \in KeyLists
         /\ args_subtitles \in Tri
         \* main hands the plugin one entry, [clearkey] (line 1093)
         /\ (args_subtitles # None => Len(decryption_key) = 1)
         /\ use_subtitles \in session_use_subtitles(args_subtitles)

NextMux ==
    \/ MuxNew
    \/ MuxInput
    \/ MuxAudioCodec
    \/ MuxOther
    \/ MuxSink

SpecMux == InitX /\ [][NextMux]_vars

InitP == InitPump /\ WkIdle /\ PsIdle /\ BypIdle /\ ManIdle /\ MuxIdle /\ KeyIdle
         /\ decryption_key = <<>> /\ use_subtitles = FALSE /\ args_subtitles = None

NextPump ==
    \/ W_ParseArgs
    \/ \E matched, found \in BOOLEAN : W_Setup(matched, found)
    \/ \E outcome \in DrmOutcomes \cup PlainOutcomes : W_LoadStreams(outcome)
    \/ \E st \in StreamKinds \cup {NoStream}, probe \in ProbeOutcomes : W_Variant(st, probe)
    \/ \E started \in BOOLEAN : W_Synth(started)
    \/ \E ok \in BOOLEAN : W_Open(ok)
    \/ \E ok \in BOOLEAN : D_Popen(ok)
    \/ \E len \in {0, ReadSize} : Read(len)
    \/ Write
    \/ ConsumerDisconnect
    \/ Interrupt

SpecPump == InitP /\ [][NextPump]_vars

InitK == InitKeys /\ WkIdle /\ PsIdle /\ BypIdle /\ ManIdle /\ MuxIdle /\ PumpIdle
         /\ decryption_key = <<>> /\ use_subtitles = FALSE /\ args_subtitles = None

NextKeys ==
    \/ KP_Entry
    \/ KP_Return

SpecKeys == InitK /\ [][NextKeys]_vars

InitV == InitVariants /\ WkIdle /\ PsIdle /\ BypIdle /\ MuxIdle /\ PumpIdle /\ KeyIdle
         /\ decryption_key = <<"key0">> /\ use_subtitles = (subtitles # <<NoneRep>>)
         /\ args_subtitles = None

NextVariants ==
    \/ PV_Language
    \/ PV_Product
    \/ PV_Rename
    \/ PV_Select
    \/ \E usable \in BOOLEAN : PV_Open(usable)

SpecVariants == InitV /\ [][NextVariants]_vars

NextWorker ==
    \/ \E found \in BOOLEAN, check \in CheckOutcomes, n \in 0..MaxSegs :
          IS_Head(found, check, n)
    \/ IS_Yield
    \/ \E ok \in BOOLEAN : IS_PassEnd(ok)
    \/ IS_Close

SpecWorker == InitWorker /\ [][NextWorker]_vars

NextPersist ==
    \/ \E c \in 1..MaxCalls : PS_Get(c)
    \/ \E c \in 1..MaxCalls : PS_Save(c)

SpecPersist == InitPersist /\ [][NextPersist]_vars


(***************************************************************************)
(* Properties                                                              *)
(***************************************************************************)
\* the hostname of u matches a pattern of the -proxybypass list
OnList(u) == \E pat \in bypasslist : fnmatch(hostname(u), pat)

\* the arguments that follow each occurrence of flag in cmd
RECURSIVE ArgsOf(_, _)
ArgsOf(flag, cmd) ==
    IF Len(cmd) < 2 THEN <<>>
    ELSE IF cmd[1] = flag THEN <<cmd[2]>> \o ArgsOf(flag, SubSeq(cmd, 3, Len(cmd)))
    ELSE ArgsOf(flag, Tail(cmd))

\* the key slot of the i-th input (0-based) when n >= 2 keys are given
KeySlot(i, n) == IF i = 0 THEN 0 ELSE 1 + ((i - 1) % (n - 1))

\* C1: parse_manifest raises the DRM-key-required error as soon as it has
\* visited a content-protected AdaptationSet or Representation while the
\* session holds no decryption key, and never raises it when keys are held.
C1_DrmKeyRequired ==
    /\ (protected_seen /\ decryption_key = <<>>)
          => (pm_pc = "raised" /\ pm_error = "DrmKeyRequired")
    /\ decryption_key # <<>> => pm_error # "DrmKeyRequired"

C1_Witness ==
    /\ pm_error = "DrmKeyRequired" /\ decryption_key = <<>>
    /\ aset_count = 2 /\ rep_count = 1

\* C2: with N >= 2 keys the i-th decryption key argument of the rebuilt command
\* carries key i while i < N and then cycles through slots 1..N-1, never slot 0;
\* a finished command has one key argument per input; 2 keys and 3 inputs give
\* key0, key1, key1.
C2_KeyOrder ==
    (mux_pc \in {"loop", "done", "IndexError"} /\ Len(decryption_key) >= 2) =>
        LET ks == ArgsOf("-decryption_key", new_cmd)
            n == Len(decryption_key)
            inputs == ArgsOf("-i", base_cmd)
        IN  /\ \A i \in 1..Len(ks) : ks[i] = decryption_key[KeySlot(i - 1, n) + 1]
            /\ mux_pc = "done" => Len(ks) = Len(inputs)
            /\ (mux_pc = "done" /\ n = 2 /\ Len(inputs) = 3)
                  => ks = <<decryption_key[1], decryption_key[2], decryption_key[2]>>

C2_Witness ==
    /\ mux_pc = "done"
    /\ decryption_key = <<"key0", "key1">>
    /\ ArgsOf("-decryption_key", new_cmd) = <<"key0", "key1", "key1">>

\* C3 as stated: after a redirect chain that ends at a Location off the bypass
\* list the run uses that Location and the proxy is not applied to the session.
C3_RedirectBypassesProxy ==
    (bp_pc = "applied" /\ OnList(args_i) /\ last_location # None
        /\ ~OnList(last_location))
    => (input_url = last_location /\ session_proxy = None)

\* C3 amended: after a redirect chain that ends at a Location off the bypass
\* list the run uses that Location and the proxy stays applied to the session.
C3_RedirectKeepsProxy ==
    (bp_pc = "applied" /\ OnList(args_i) /\ last_location # None
        /\ ~OnList(last_location))
    => (input_url = last_location /\ args_proxy = Proxy /\ session_proxy = Proxy)

C3_Witness ==
    /\ bp_pc = "applied" /\ bp_event = "left_bypass" /\ nrequests = 2
    /\ input_url = "http://cdn.net/live"

\* C4: a 301/302 without Location ends in 'use proxy, original URL': the proxy
\* stays configured and the stream URL is the input URL.
C4_NoLocationKeepsProxy ==
    (bp_pc = "applied" /\ bp_event = "no_location")
    => (session_proxy = Proxy /\ input_url = args_i)

\* C5: an unexpected status or an exception, at any hop, ends in 'use proxy,
\* original URL': the proxy stays configured and the stream URL is the input
\* URL, not an intermediate redirect target.
C5_ErrorKeepsOriginalUrl ==
    (bp_pc = "applied" /\ bp_event \in {"bad_status", "exception"})
    => (session_proxy = Proxy /\ input_url = args_i)

\* C6: when the hostname of the input URL matches no bypass pattern,
\* proxy_bypass_req issues no request and returns the URL unchanged, and the
\* run keeps the URL and the proxy.
C6_NoMatchNoRequest ==
    (bypasslist # {} /\ ~OnList(args_i)) =>
        /\ nrequests = 0 /\ contacted = {}
        /\ bp_pc \in {"returned", "applied"} => bypass_result = args_i
        /\ bp_pc = "applied" => (input_url = args_i /\ session_proxy = Proxy)

C6_Witness ==
    /\ bp_pc = "applied" /\ bp_event = "no_match"
    /\ args_i = "http://cdn.net/live" /\ bypasslist = {<<"*", "lan">>}

\* C7: in a dispatchwrapparr run in which a setup step failed nothing is
\* written to standard output.
C7_NoOutputAfterSetupFailure ==
    (prog = "dispatchwrapparr" /\ setup_failure # None)
    => (stdout = <<>> /\ nwrite = 0)

C7_Witness ==
    /\ prog = "dispatchwrapparr" /\ setup_failure = "drm_check" /\ exit = "exit0"

\* C8: an interruption that arrives inside the try block of either pump
\* (while the subprocess is started, or in the read loop) ends the run without
\* error, with every subprocess of the run terminated and waited for.
C8_InterruptEndsCleanly ==
    (interrupted # None /\ interrupted \in TryPositions(prog))
    => (pc = "exit" /\ exit = "exit0" /\ process \in {"none", "waited"})

\* C9: after the first write that hits the disconnected consumer no further
\* write is issued and the process is gone, neither by an unhandled exception
\* nor with an error exit status.
C9_BrokenPipeStops ==
    broken_at # 0 =>
        /\ nwrite = broken_at
        /\ pc = "exit"
        /\ exit \notin {"running", "exception", "exit1"}

C9_Witness ==
    /\ prog = "dispatchduck" /\ broken_at = 2 /\ Len(stdout) = 1 /\ exit = "sigpipe"

\* C10: a read of zero bytes ends the pump: it is the last read, every chunk
\* read before it has been written and nothing is written after it, and the
\* process exits with status 0.
C10_ZeroReadEndsPump ==
    eof_at # 0 =>
        /\ nread = eof_at
        /\ nwrite = eof_at - 1
        /\ Len(stdout) = eof_at - 1
        /\ pc = "exit"
        /\ exit = "exit0"

C10_Witness ==
    /\ eof_at = 3 /\ stdout = <<1, 2>> /\ exit = "exit0"

\* C11: once a run that started a synthetic generator (create_silent_audio or
\* create_blank_video) has ended, by end of stream, interruption, broken pipe or
\* a failed open of the muxed stream, the generator subprocess is not running
\* any more.
C11_GeneratorTerminated ==
    (prog = "dispatchwrapparr" /\ muxed /\ exit # "running") => process # "running"

\* the positions of tok in cmd
Positions(tok, cmd) == {p \in 1..Len(cmd) : cmd[p] = tok}

\* cmd without the "-mpegts_copyts 1" put before its last token
StripSink(cmd) ==
    IF Len(cmd) >= 3 /\ cmd[Len(cmd) - 2] = "-mpegts_copyts"
    THEN SubSeq(cmd, 1, Len(cmd) - 3) \o <<cmd[Len(cmd)]>>
    ELSE cmd

\* cmd without the tokens put before "-i" and after a "-c:a" pair
RECURSIVE StripArgs(_)
StripArgs(cmd) ==
    IF cmd = <<>> THEN <<>>
    ELSE IF Head(cmd) \in {"-re", "-copyts"} THEN StripArgs(Tail(cmd))
    ELSE IF Head(cmd) \in {"-readrate_initial_burst", "-decryption_key", "-c:s"}
         THEN StripArgs(SubSeq(cmd, 3, Len(cmd)))
    ELSE <<Head(cmd)>> \o StripArgs(Tail(cmd))

\* cmd without the tokens that FFMPEGMuxerDRM.__init__ inserts
Strip(cmd) == StripArgs(StripSink(cmd))

\* C15: when exactly one key is supplied, every decryption key argument of the
\* rebuilt command carries that key, a finished command has one per input, and
\* the construction fails only on a template that ends in a dangling flag.
C15_OneKeyForAll ==
    (mux_pc \in {"loop", "done", "IndexError"}
        /\ decryption_key \in {<<"key0">>, <<"key0", "key0">>}) =>
        LET ks == ArgsOf("-decryption_key", new_cmd)
            inputs == ArgsOf("-i", base_cmd)
        IN  /\ \A i \in 1..Len(ks) : ks[i] = "key0"
            /\ mux_pc = "done" => Len(ks) = Len(inputs)
            /\ mux_pc = "IndexError" => base_cmd[Len(base_cmd)] \in {"-i", "-c:a"}

C15_Witness ==
    /\ mux_pc = "done" /\ muxers = 2
    /\ decryption_key = <<"key0", "key0">>
    /\ ArgsOf("-decryption_key", new_cmd) = <<"key0", "key0", "key0">>

\* C16: with a non-empty KeySet, in a finished command every "-i" is
\* immediately preceded by -re, -readrate_initial_burst 6, -decryption_key with
\* the key of that input, and -copyts; the command has as many "-i" and as many
\* decryption key arguments as the template has input pairs.
C16_KeyArgsBeforeInput ==
    (mux_pc = "done" /\ keys # <<>>) =>
        LET P == Positions("-i", new_cmd)
            inputs == ArgsOf("-i", base_cmd)
        IN  /\ Cardinality(P) = Len(inputs)
            /\ Cardinality(Positions("-decryption_key", new_cmd)) = Len(inputs)
            /\ \A p \in P :
                 LET j == Cardinality({q \in P : q <= p})
                 IN  /\ p > 6
                     /\ SubSeq(new_cmd, p - 6, p - 1) =
                          <<"-re", "-readrate_initial_burst", "6", "-decryption_key",
                            keys[KeySlot(j - 1, Len(keys)) + 1], "-copyts">>

C16_Witness ==
    /\ mux_pc = "done" /\ keys = <<"key0", "key1", "key2">>
    /\ Cardinality(Positions("-i", new_cmd)) = 4
    /\ use_subtitles

\* C17: the construction of FFMPEGMuxerDRM ends with a command from which
\* deleting the inserted tokens gives back the base template, for every
\* template, those that end in "-i" or "-c:a" included.
C17_StripYieldsTemplate ==
    mux_pc \in {"done", "IndexError"} =>
        (mux_pc = "done" /\ Strip(new_cmd) = base_cmd)

\* C18: in a clearkey run of main with -subtitles the finished command has
\* "-c:s copy" right after every "-c:a" pair; without -subtitles it has no
\* "-c:s".
C18_SubtitlesCopied ==
    (mux_pc = "done" /\ args_subtitles # None) =>
        IF args_subtitles = "True"
        THEN \A p \in Positions("-c:a", new_cmd) :
                p < Len(new_cmd) =>
                    (p + 3 <= Len(new_cmd)
                       /\ SubSeq(new_cmd, p + 2, p + 3) = <<"-c:s", "copy">>)
        ELSE Positions("-c:s", new_cmd) = {}

\* in a finished command stripping the inserted tokens gives the template
StripDone == mux_pc = "done" => Strip(new_cmd) = base_cmd

\* s has exactly 32 characters, all of them from [0-9a-fA-F]
IsHex32(s) == Len(s) = 32 /\ \A i \in 1..32 : s[i] \in
    {"0", "1", "2", "3", "4", "5", "6", "7", "8", "9",
     "a", "b", "c", "d", "e", "f", "A", "B", "C", "D", "E", "F"}

\* what follows the last colon of the entry
CandidateOf(entry) ==
    LET colons == {i \in 1..Len(entry) : entry[i] = ":"}
        from == IF colons = {} THEN 1
                ELSE (CHOOSE i \in colons : \A j \in colons : j <= i) + 1
    IN  SubSeq(entry, from, Len(entry))

\* pat repeated up to len characters
Cyc(pat, len) == [i \in 1..len |-> pat[((i - 1) % Len(pat)) + 1]]

\* base64 candidates of the model, with the hex of the 16 bytes they encode
\* (values of base64.urlsafe_b64decode(...).hex() in CPython 3.11)
B64Decoded ==
    {<<Cyc(<<"0", "f">>, 22), Cyc(<<"d", "1", "f">>, 32)>>,
     <<Cyc(<<"A", "b">>, 22), Cyc(<<"0", "1", "b">>, 32)>>,
     <<Cyc(<<"g", "0">>, 22), Cyc(<<"8", "3", "4">>, 32)>>,
     <<Cyc(<<"0", "f">>, 22) \o <<"=", "=">>, Cyc(<<"d", "1", "f">>, 32)>>}

\* C12: every entry whose candidate, after the optional base64 decoding, is not
\* 32 characters of [0-9a-fA-F] makes _process_keys raise FatalPluginError: no
\* other exception leaves the loop, and every key that was accepted is 32
\* hex characters.
C12_InvalidKeyRejected ==
    /\ kp_pc = "raised" => kp_error = "FatalPluginError"
    /\ \A i \in 1..Len(return_keys) : IsHex32(return_keys[i])

\* C13: the key returned for an accepted entry is its candidate itself when the
\* candidate is 32 hex characters, and the 32 lower-case hex digits of the
\* decoded bytes when the candidate is URL-safe base64 of 21 to 24 characters
\* that decodes to 16 bytes.
C13_CanonicalKey ==
    \A i \in 1..Len(return_keys) :
        LET cand == CandidateOf(key_option[i])
        IN  /\ IsHex32(cand) => return_keys[i] = cand
            /\ \A d \in B64Decoded : cand = d[1] => return_keys[i] = d[2]
            /\ Len(cand) \in 21..24 =>
                  (Len(return_keys[i]) = 32 /\
                   \A j \in 1..32 : \E v \in 1..16 : HexDigits[v] = return_keys[i][j])

C13_Witness ==
    /\ kp_pc = "returned" /\ ~via_main
    /\ key_option = <<<<"k", "1", ":">> \o Cyc(<<"0", "f">>, 32), Cyc(<<"A", "b">>, 22)>>
    /\ decryption_key = <<Cyc(<<"0", "f">>, 32), Cyc(<<"0", "1", "b">>, 32)>>

\* C14: in a run of main whose clearkey string has n comma-separated entries,
\* the key list stored in the session when _process_keys has returned has n
\* keys, the i-th being the key of the i-th entry.
C14_OneKeyPerEntry ==
    (via_main /\ kp_pc = "returned") =>
        /\ Len(decryption_key) = Len(clearkeys)
        /\ \A i \in 1..Len(clearkeys) :
              i <= Len(decryption_key) =>
                  LET cand == CandidateOf(clearkeys[i])
                  IN  IsHex32(cand) => decryption_key[i] = cand

\* the pairs of itertools.product(video, audio) that are not (None, None)
FormedPairs ==
    {p \in [v : 1..Len(video), a : 1..Len(audio)] :
        is_rep(video[p.v]) \/ is_rep(audio[p.a])}

\* the video bandwidth of the pair p, 0 when it has no video
PairBandwidth(p) == IF is_rep(video[p.v]) THEN video[p.v].bandwidth ELSE 0

\* the suffixes "", "_alt", "_alt2", "_alt3", ...
SuffixTable ==
    <<<<>>,
     <<"_", "a", "l", "t">>,
     <<"_", "a", "l", "t", "2">>,
     <<"_", "a", "l", "t", "3">>,
     <<"_", "a", "l", "t", "4">>,
     <<"_", "a", "l", "t", "5">>,
     <<"_", "a", "l", "t", "6">>,
     <<"_", "a", "l", "t", "7">>,
     <<"_", "a", "l", "t", "8">>,
     <<"_", "a", "l", "t", "9">>,
     <<"_", "a", "l", "t", "1", "0">>,
     <<"_", "a", "l", "t", "1", "1">>,
     <<"_", "a", "l", "t", "1", "2">>>>

\* C19: parse_manifest returns exactly one named variant per (video, audio)
\* pair it forms, under pairwise distinct names, so that no pair is lost; three
\* video representations of 500k, 1000k and 1000k that are named alike, with
\* one audio representation, give three variants, the two of 1000k under the
\* plain name and the "_alt" name.
C19_OneVariantPerPair ==
    pm_pc = "returned" =>
        /\ Len(ret_new) = Cardinality(FormedPairs)
        /\ {ret_new[i].pair : i \in 1..Len(ret_new)} = FormedPairs
        /\ \A i, j \in 1..Len(ret_new) : i # j => ret_new[i].name # ret_new[j].name
        /\ \A h \in {0, 720} :
              (/\ Len(video) = 3 /\ Len(audio) = 1 /\ is_rep(audio[1])
               /\ \A i \in 1..3 : is_rep(video[i]) /\ video[i].height = h
               /\ Cardinality({i \in 1..3 : video[i].bandwidth = 1000}) = 2
               /\ Cardinality({i \in 1..3 : video[i].bandwidth = 504}) = 1)
              => LET q == IF h = 0 THEN <<"1", "0", "0", "0", "k">> ELSE <<"7", "2", "0", "p">>
                 IN  /\ Len(ret_new) = 3
                     /\ {ret_new[i].name : i \in {j \in 1..3 :
                            ret_new[j].stream.video_representation.bandwidth = 1000}}
                        = {q, q \o <<"_", "a", "l", "t">>}

C19_Witness ==
    /\ pm_pc = "returned" /\ Len(audio) = 1 /\ is_rep(audio[1])
    /\ [i \in 1..Len(video) |-> video[i].mimeType] = <<"video", "video", "video">>
    /\ [i \in 1..Len(ret_new) |-> ret_new[i].name] =
          <<<<"5", "0", "0", "k">>, <<"1", "0", "0", "0", "k">>,
            <<"1", "0", "0", "0", "k", "_", "a", "l", "t">>>>

\* C20: the variants that share a base name are ordered by descending video
\* bandwidth (0 without video), ties in manifest order, and the n-th of them
\* (from 0) is returned under the base name with the n-th suffix of "",
\* "_alt", "_alt2", "_alt3", ...
C20_SuffixOrder ==
    pm_pc = "returned" =>
        \A i \in 1..Len(ret) :
            LET before == {j \in 1..Len(ret) :
                              /\ ret[j].name = ret[i].name
                              /\ \/ PairBandwidth(ret[j].pair) > PairBandwidth(ret[i].pair)
                                 \/ (PairBandwidth(ret[j].pair) = PairBandwidth(ret[i].pair)
                                     /\ j < i)}
                n == Cardinality(before)
            IN  \E k \in 1..Len(ret_new) :
                    /\ ret_new[k].pair = ret[i].pair
                    /\ ret_new[k].name = ret[i].name \o SuffixTable[n + 1]

C20_Witness ==
    /\ pm_pc = "returned"
    /\ [k \in 1..Len(ret_new) |-> <<ret_new[k].pair.v, ret_new[k].pair.a>>] =
          <<<<2, 1>>, <<2, 2>>, <<3, 1>>, <<3, 2>>, <<1, 1>>, <<1, 2>>>>
    /\ ret_new[4].name = <<"7", "2", "0", "p", "_", "a", "l", "t", "3">>
    /\ video[1].bandwidth = 504 /\ video[2].bandwidth = 1000

\* C21: every variant that parse_manifest returns, whatever with_video_only and
\* with_audio_only are, has a video representation or a primary audio
\* representation
C21_VideoOrAudio ==
    pm_pc = "returned" =>
        \A i \in 1..Len(ret_new) :
            \/ is_rep(ret_new[i].stream.video_representation)
            \/ is_rep(ret_new[i].stream.audio_representation)

\* an audio representation in the language of an explicit locale
MatchesLocale(a) ==
    is_rep(a) /\ a.lang # None /\ locale.explicit /\ language_get(a.lang) = locale.language

\* C22: the working language is the language of an audio representation that
\* matches an explicit locale, if there is one, and the language of the first
\* entry of the audio bucket otherwise; with more than one audio language the
\* filtered bucket is the representations whose language is None or the working
\* language, and it keeps every representation that matches the locale
C22_WorkingLanguage ==
    pm_pc # "buckets" =>
        LET matching == {i \in 1..Len(period_audio) : MatchesLocale(period_audio[i])}
            keep(a) == is_rep(a) /\ (a.lang = None \/ a.lang = lang)
        IN  /\ IF matching # {}
               THEN \E i \in matching : lang = period_audio[i].lang
               ELSE lang = (IF is_rep(period_audio[1]) THEN period_audio[1].lang ELSE None)
            /\ Cardinality(available_languages(period_audio)) > 1 =>
                   /\ audio = SelectSeq(period_audio, keep)
                   /\ \A i \in matching : \E j \in 1..Len(audio) : audio[j] = period_audio[i]

\* C23: every variant carries the whole audio bucket of the period, the
\* representations the language filter removed included, and the whole subtitle
\* bucket
C23_FullRideAlong ==
    pm_pc = "returned" =>
        \A i \in 1..Len(ret_new) :
            /\ ret_new[i].stream.audio_representations = period_audio
            /\ ret_new[i].stream.subtitles_representations = subtitles

\* the run did e
Has(e) == \E i \in 1..Len(events) : events[i] = e

\* C24 as stated: when the streams cannot be fetched because the period is
\* protected and there is no key, no probe has been issued in the run, neither
\* by proxy_bypass_req nor by check_stream_variant
C24_DrmBeforeAnyProbe ==
    setup_failure = "drm_check" => ~Has("bypass_probe") /\ ~Has("variant_probe")

\* C24: when the streams cannot be fetched because the period is protected and
\* there is no key, the run has ended before the variant check: no request of
\* check_stream_variant, no generator and no stream was opened.  The request of
\* proxy_bypass_req, which a run with -proxy and -proxybypass issues first, is
\* the only probe that can precede the failure.
C24_DrmBeforeVariantProbe ==
    setup_failure = "drm_check" =>
        /\ pc = "exit" /\ clearkey = None /\ variant = -1 /\ process = "none" /\ fd = "unopened"
        /\ \A i \in 1..Len(events) : events[i] \in {"bypass_probe", "streams"}
        /\ Has("bypass_probe") => (cli.proxy /\ cli.proxybypass /\ events[1] = "bypass_probe")

C24_Witness ==
    setup_failure = "drm_check" /\ events = <<"bypass_probe", "streams">> /\ exit = "exit0"

\* no option on the command line or in the fragment sets or forbids a
\* synthetic track
NoOverride ==
    /\ DOMAIN frag = {}
    /\ ~cli.novideo /\ ~cli.noaudio /\ ~cli.novariantcheck

\* the generators the run created, in order
Generators ==
    LET gen(e) == e \in {"silent_audio", "blank_video"} IN SelectSeq(events, gen)

\* the synthetic track step is behind the run
PastSynth == pc \in {"open", "read", "write"} \/ Has("open")

\* C25: without an override the stream is looked at, and what is found decides:
\* audio only (1), one blank video generator, muxed as the video with the stream
\* as the audio; video only (2), one silent audio generator, muxed as the audio
\* with the stream as the video; normal (0), no generator and no muxing.
C25_SynthFollowsDetector ==
    (prog = "dispatchwrapparr" /\ NoOverride) =>
        /\ pc \in {"synth", "open", "read", "write"} => variant \in {0, 1, 2}
        /\ variant = -1 => Generators = <<>>
        /\ variant = 0 =>
              Generators = <<>> /\ ~muxed /\ video_stream = None /\ audio_stream = None
        /\ variant = 1 =>
              /\ Generators \in {<<>>, <<"blank_video">>}
              /\ PastSynth => /\ Generators = <<"blank_video">> /\ muxed
                              /\ video_stream = "blank_video" /\ audio_stream = "stream"
        /\ variant = 2 =>
              /\ Generators \in {<<>>, <<"silent_audio">>}
              /\ PastSynth => /\ Generators = <<"silent_audio">> /\ muxed
                              /\ video_stream = "stream" /\ audio_stream = "silent_audio"

C25_Witness ==
    /\ NoOverride /\ variant = 1 /\ Generators = <<"blank_video">>
    /\ audio_stream = "stream" /\ Len(stdout) = 1

\* C26: when noaudio and novideo are both in effect, whether they come from the
\* fragment or from the command line, no generator is started and the stream is
\* not muxed; the warning is logged where the generator would have been made,
\* and the stream that was selected is the one that is opened and pumped.
C26_BothIgnored ==
    (noaudio = "True" /\ novideo = "True") =>
        /\ Generators = <<>> /\ process = "none" /\ ~muxed
        /\ video_stream = None /\ audio_stream = None
        /\ PastSynth => Has("warning")

C26_Witness ==
    /\ noaudio = "True" /\ novideo = "True" /\ cli.novideo /\ "noaudio" \in DOMAIN frag
    /\ Has("warning") /\ Len(stdout) = 1

\* the value of an option that is in effect: the fragment if it has the key,
\* the command line otherwise
InEffect(name) ==
    IF name \in DOMAIN frag THEN frag[name] = <<"T", "r", "u", "e">> ELSE cli[name]

\* the run was refused before it did anything
Refused ==
    /\ events = <<>> /\ process = "none" /\ fd = "unopened" /\ stdout = <<>>
    /\ (pc # "args" /\ interrupted = None) => (exit = "exit2" /\ pc = "exit")

\* C27 as stated: a run with more than one of novideo, noaudio, novariantcheck
\* in effect, or with a bypass list and no proxy, is refused before it does
\* anything
C27_ConflictRefused ==
    (prog = "dispatchwrapparr"
     /\ \/ cli.proxybypass /\ ~cli.proxy
        \/ \E f, g \in {"novideo", "noaudio", "novariantcheck"} :
              f # g /\ InEffect(f) /\ InEffect(g))
    => Refused

\* C27: a run whose command line has more than one of -novideo, -noaudio,
\* -novariantcheck, or -proxybypass without -proxy, is refused before it does
\* anything (a combination that comes about through the fragment is not)
C27_CliConflictRefused ==
    (prog = "dispatchwrapparr"
     /\ \/ cli.proxybypass /\ ~cli.proxy
        \/ \E f, g \in {"novideo", "noaudio", "novariantcheck"} :
              f # g /\ cli[f] /\ cli[g])
    => Refused

C27_Witness ==
    /\ cli.novideo /\ cli.noaudio /\ cli.proxy /\ DOMAIN frag = {}
    /\ exit = "exit2" /\ events = <<>>

\* C28: no exception leaves check_stream_variant, its value is 0, 1 or 2, and
\* it is 0 when the request for the content type failed
C28_DetectorNeverRaises ==
    /\ setup_failure # "variant_check"
    /\ stream # NoStream => variant \in {0, 1, 2}
    /\ Has("probe_exception") => variant = 0

C28_Witness ==
    /\ Has("probe_exception") /\ variant = 0 /\ stream.cls = "HLSStream" /\ pc = "read"

\* the stream has codec tags: the playlist of a multivariant HLS stream
HasCodecTags(st) == st.cls = "HLSStream" /\ st.multivariant /\ st.selected /\ st.codecs # <<>>

\* the audio extensions and the container extensions, without the dot
AudioExtensions == {<<"a", "a", "c">>, <<"m", "4", "a">>, <<"m", "p", "3">>, <<"o", "g", "g">>}

ContainerExtensions ==
    {<<"m", "p", "4">>, <<"m", "k", "v">>, <<"w", "e", "b", "m">>, <<"m", "o", "v">>}

\* the URL of the stream, whatever the case of its letters, ends in a dot and
\* one of exts
UrlEndsIn(st, exts) ==
    /\ st.cls \in {"HLSStream", "HTTPStream"}
    /\ \E ext \in exts : endswith(lower(st.url), {<<".">> \o ext})

HasKnownExtension(st) == UrlEndsIn(st, AudioExtensions \cup ContainerExtensions)

\* C29: a stream with codec tags, or with a URL that ends in a known
\* extension, is classified without a request; the request is issued only for
\* a stream that has neither
C29_RulesBeforeProbe ==
    stream # NoStream =>
        /\ (HasCodecTags(stream) \/ HasKnownExtension(stream)) => ~Has("variant_probe")
        /\ Has("variant_probe") => (~HasCodecTags(stream) /\ ~HasKnownExtension(stream))
        /\ (~HasCodecTags(stream) /\ HasKnownExtension(stream)) =>
              variant = (IF UrlEndsIn(stream, AudioExtensions) THEN 1 ELSE 0)

C29_Witness ==
    /\ stream.cls = "HTTPStream" /\ HasKnownExtension(stream) /\ variant = 1
    /\ ~Has("variant_probe") /\ pc = "read"

\* the entries of ret_new with the given name
Named(name) == {i \in 1..Len(ret_new) : ret_new[i].name = name}

\* the variant set is {720p, 1080p, 1080p_alt}
C30_VariantSet ==
    /\ Len(ret_new) = 3
    /\ Named(<<"7", "2", "0", "p">>) # {}
    /\ Named(<<"1", "0", "8", "0", "p">>) # {}
    /\ Named(<<"1", "0", "8", "0", "p", "_", "a", "l", "t">>) # {}

FragmentSays(name) == IF frag[name] = <<"T", "r", "u", "e">> THEN "True" ELSE "False"

\* the options are merged
Merged ==
    /\ prog = "dispatchwrapparr" /\ pc \notin {"args", "setup"}
    /\ setup_failure # "usage" /\ interrupted \notin {"args", "setup"}

\* C31: once main has merged the options, a flag that the fragment mentions has
\* the value the fragment gives it whatever the command line says, a flag the
\* fragment does not mention is set when the command line sets it, and with a
\* clearkey in the fragment that key is the one used and the source of
\* -clearkeys has not been consulted
C31_FragmentOverrides ==
    Merged =>
        /\ \A f \in {"novariantcheck", "noaudio", "novideo"} :
              LET flag == CASE f = "novariantcheck" -> novariantcheck
                            [] f = "noaudio" -> noaudio
                            [] f = "novideo" -> novideo
              IN  /\ f \in DOMAIN frag => flag = FragmentSays(f)
                  /\ (f \notin DOMAIN frag /\ cli[f]) => flag = "True"
        /\ "clearkey" \in DOMAIN frag => clearkey = "fragment" /\ ~consulted
        /\ consulted => cli.clearkeys

C31_Witness ==
    /\ Merged /\ cli.noaudio /\ cli.clearkeys
    /\ "noaudio" \in DOMAIN frag /\ "clearkey" \in DOMAIN frag
    /\ noaudio = "False" /\ clearkey = "fragment" /\ ~consulted

\* the host of u matches a pattern of the bypass list
HostOnList(u) ==
    /\ hostname(u) # NoHost
    /\ \E pat \in bypasslist : Len(pat) = Len(hostname(u))
                               /\ \A i \in 1..Len(pat) : pat[i] \in {"*", hostname(u)[i]}

\* C32: every URL that proxy_bypass_req has requested without the proxy, at
\* any hop of a redirect chain, has a host name that matches a pattern of the
\* bypass list
C32_DirectOnlyOnList == \A u \in contacted : HostOnList(u)

C32_Witness ==
    /\ bp_pc = "returned" /\ Cardinality(contacted) >= 2
    /\ \E u \in URLS : ~HostOnList(u) /\ hostname(u) # NoHost

\* C33: whatever the server answers, proxy_bypass_req returns
C33_ResolverReturns == <>(bp_pc \in {"returned", "applied"})

\* the representations of the selected stream that are not placeholders
RealReps ==
    LET st == selected[1].stream
        real(r) == r # NoneRep
    IN  (IF real(st.video_representation) THEN <<st.video_representation>> ELSE <<>>)
        \o SelectSeq(st.audio_representations, real)
        \o (IF real(st.video_representation)
            THEN SelectSeq(st.subtitles_representations, real) ELSE <<>>)

\* C34: open of the selected stream creates one reader for each of its
\* representations and none for a placeholder; it returns the muxer only with
\* a video reader and an audio reader, the video reader when there is no audio,
\* the first audio reader when there is no video
C34_OneReaderPerRepresentation ==
    pm_pc = "opened" =>
        LET st == selected[1].stream
            has_video == st.video_representation # NoneRep
            has_audio == \E i \in 1..Len(st.audio_representations) :
                            st.audio_representations[i] # NoneRep
        IN  /\ \A i \in 1..Len(opened.readers) : opened.readers[i] # NoneRep
            /\ opened.readers = RealReps
            /\ opened.result = "muxer" => has_video /\ has_audio
            /\ (has_video /\ ~has_audio) => opened.result = "video"
            /\ (has_audio /\ ~has_video) => opened.result = "audio1"

\* C35: however many muxers are constructed on the session, a stored key list
\* of two or more entries is never modified and a stored list of one entry is
\* at most doubled, so that it never has more than two entries; with one key
\* supplied, every decryption key argument of every muxer carries that key
C35_RepeatedConstruction ==
    /\ [](decryption_key \in {<<"key0">>, <<"key0", "key0">>} =>
            \A i \in 1..Len(new_cmd) :
                (i > 1 /\ new_cmd[i - 1] = "-decryption_key") => new_cmd[i] = "key0")
    /\ [][/\ Len(decryption_key) # 1 => decryption_key' = decryption_key
          /\ Len(decryption_key) = 1 =>
                decryption_key' \in {decryption_key, decryption_key \o decryption_key}]_vars

C35_Witness ==
    /\ muxers = 2 /\ mux_pc = "loop" /\ decryption_key = <<"key0", "key0">>
    /\ Cardinality({i \in 1..Len(new_cmd) : new_cmd[i] = "-decryption_key"}) >= 2

\* C36: in both pumps standard output holds the chunks that were read, in read
\* order, each one once: the i-th chunk written is the i-th chunk read, at
\* most the last chunk read is not written, and when the next read is about to
\* be issued every chunk read so far has been written
C36_OutputIsPrefixOfInput ==
    /\ \A i \in 1..Len(stdout) : stdout[i] = i
    /\ Len(stdout) \in {nread - 1, nread}
    /\ (pc = "read" /\ exit = "running") => Len(stdout) = nread

C36_Witness ==
    /\ prog = "dispatchduck" /\ pc = "read" /\ exit = "running"
    /\ nread = 2 /\ stdout = <<1, 2>> /\ data = ReadSize

\* C39: in a run that got past the variant check, check_stream_variant was
\* called on the selected stream exactly when none of novariantcheck, noaudio
\* and novideo is true after the fragment and the command line were merged; a
\* fragment value of false does not stand in the way
C39_DetectionUnlessFlagTrue ==
    (prog = "dispatchwrapparr" /\ pc \in {"synth", "open", "read", "write"}) =>
        (stream # NoStream <=>
            \A f \in {"novariantcheck", "noaudio", "novideo"} : ~InEffect(f))

\* the segments that the pass of iteration i yielded
YieldedIn(i) == {k \in 1..Len(yielded) : yielded[k][1] = i}

\* the passes before iteration i
PassesBefore(i) == {j \in 1..(i - 1) : wk_log[j].passed}

\* C37 as stated: an iteration of iter_segments that replaces reader.ident by
\* the representation of the next period comes directly after an iteration
\* whose pass yielded no segment; an iteration that starts with a pending new
\* representation does not call check_new_rep
C37_SwitchDirectlyAfterEmptyPass ==
    \A i \in 1..Len(wk_log) :
        /\ wk_log[i].switched =>
              (i > 1 /\ wk_log[i - 1].passed /\ YieldedIn(i - 1) = {})
        /\ wk_log[i].pending => ~wk_log[i].called

\* C37: an iteration of iter_segments that replaces reader.ident by the
\* representation of the next period is not the first one, there was a pass
\* before it, and the last pass before it yielded no segment (iterations that
\* found no representation and made no pass may lie between); an iteration
\* that starts with a pending new representation does not call check_new_rep
C37_SwitchOnlyAfterEmptyPass ==
    \A i \in 1..Len(wk_log) :
        /\ wk_log[i].switched =>
              /\ i > 1 /\ PassesBefore(i) # {}
              /\ LET last == CHOOSE j \in PassesBefore(i) : \A q \in PassesBefore(i) : q <= j
                 IN  YieldedIn(last) = {}
        /\ wk_log[i].pending => ~wk_log[i].called

C37_Witness ==
    /\ Len(wk_log) = 3 /\ wk_pc = "pass"
    /\ YieldedIn(1) # {} /\ wk_log[2].pending /\ ~wk_log[2].switched
    /\ YieldedIn(2) = {} /\ wk_log[3].pending /\ wk_log[3].switched /\ ident = 2

\* C38: with a manifest that is not dynamic and a representation that the
\* first iteration finds, iter_segments makes one pass, in which it yields
\* each segment once, and returns with the worker closed; it raises nothing,
\* enters no second iteration and switches to no other period
C38_StaticReturnsAfterFirstPass ==
    (mpd_type # "dynamic" /\ wk_log # <<>> /\ wk_log[1].found) =>
        /\ wk_pc \in {"pass", "returned"} /\ iter = 1 /\ ident = 1
        /\ ~wk_log[1].switched
        /\ \A k \in 1..Len(yielded) : yielded[k] = <<1, k>>
        /\ wk_pc = "returned" => closed

\* C40: when all calls of persist_settings on the plugin key have returned,
\* the stored settings hold the update of every call whose keys no other
\* call updates or clears
C40_NoLostUpdate ==
    (\A c \in DOMAIN ps_pc : ps_pc[c] = "done") =>
        \A c \in DOMAIN ps_pc :
            (\A d \in DOMAIN ps_pc \ {c} :
                DOMAIN ps_args[c].updates
                    \cap (DOMAIN ps_args[d].updates \cup ps_args[d].clear) = {})
            => \A k \in DOMAIN ps_args[c].updates :
                  k \in DOMAIN db_settings /\ db_settings[k] = ps_args[c].updates[k]
====
